---- MODULE Spec2Model ----
(***************************************************************************)
(* Model of the OCI Terraform deployment orchestrator (v2):                *)
(*   - topological_sort, the level scheduler, as an operator;              *)
(*   - main's level-by-level execution loop, execute_services_in_parallel  *)
(*     (a ThreadPoolExecutor with max_workers threads) and the per-service *)
(*     runner execute_terraform_for_service, as a state machine.           *)
(***************************************************************************)
EXTENDS Integers, Sequences, FiniteSets, TLC

VARIABLES
    pc,                 \* position of the main thread
    changed_services,   \* main: the candidate list handed to topological_sort
    dep_table,          \* the dependency table in force (SERVICE_DEPENDENCIES)
    execution_levels,   \* main: the plan returned by topological_sort
    warning,            \* the warning topological_sort printed
    args,               \* parsed run configuration (dry_run, parallel, max_workers, action)
    level_num,          \* main: 1-based index of the level being executed
    all_results,        \* main: results of every attempted service, in order
    results,            \* execute_services_in_parallel: its local result list
    idx,                \* loop index inside the level (submit loop / sequential loop)
    work_queue,         \* ThreadPoolExecutor: submitted, not yet started work items
    svc,                \* per service: position of its runner
    svc_result,         \* per service: the result dict its runner built
    finished,           \* as_completed: futures found finished when it was called
    waiter,             \* as_completed: futures that finished later, in completion order
    yielded,            \* as_completed: futures already yielded
    started_log,        \* history: services in the order their runner was started
    tool_stdout,        \* input: what terraform plan / apply prints in this run
    env,                \* input: the working directory and the credentials found
    changed_files,      \* detect_changed_services: the changed file paths in use
    detected_services,  \* detect_changed_services: its set services, as found so far
    changed_modules,    \* detect_changed_services: the module names found changed
    detect_log,         \* history: the external calls change detection made
    proc_log,           \* history, per service: the subprocess.run calls made for it
    completed_log,      \* history of one execute_services_in_parallel call: its
                        \* services in the order their runner returned
    exit_code           \* value returned by main

vars == <<pc, changed_services, dep_table, execution_levels, warning, args,
          level_num, all_results, results, idx, work_queue, svc, svc_result,
          finished, waiter, yielded, started_log, proc_log, completed_log,
          tool_stdout, env, changed_files, detected_services, changed_modules,
          detect_log,
          exit_code>>

detect_vars == <<env, changed_files, detected_services, changed_modules, detect_log>>
engine_vars == <<all_results, results, idx, work_queue, svc, svc_result,
                 finished, waiter, yielded, started_log, proc_log, completed_log>>

----------------------------------------------------------------------------
(* Bounds of the model *)

\* longest prerequisite list of a table entry in the scheduler's input space
MaxDeps == 2
\* largest --max-workers value explored
MaxWorkers == 2
MaxFiles == 2

----------------------------------------------------------------------------
(* Service names and their alphabetical order (Python's str comparison) *)

ServiceNames ==
    << "budget", "compute", "database", "dns", "firewall", "fss", "identity",
       "kms", "loadbalancer", "managementservices", "network", "nsg", "ocvs",
       "oke", "oss", "quota", "security", "tagging", "vlan" >>

AllNames == { ServiceNames[i] : i \in DOMAIN ServiceNames }

\* a directory name that is no service: '.' sorts before every letter
HiddenName == ".terraform"

NameOrder == << HiddenName >> \o ServiceNames

Rank(s) == CHOOSE i \in DOMAIN NameOrder : NameOrder[i] = s

\* variant of SERVICE_DEPENDENCIES: identity and network list each other
TableWithCycle ==
    [ s \in AllNames |-> IF s = "identity" THEN << "network" >>
                         ELSE IF s = "network" THEN << "identity" >>
                         ELSE << >> ]

\* the shipped table
SERVICE_DEPENDENCIES ==
    [ budget |-> <<"identity">>,
      compute |-> <<"network", "identity">>,
      database |-> <<"network", "identity">>,
      dns |-> <<"identity">>,
      firewall |-> <<"network", "identity">>,
      fss |-> <<"network", "identity">>,
      identity |-> <<>>,
      kms |-> <<>>,
      loadbalancer |-> <<"network", "identity">>,
      managementservices |-> <<"network", "identity">>,
      network |-> <<"identity">>,
      nsg |-> <<"network", "identity">>,
      ocvs |-> <<"network", "identity">>,
      oke |-> <<"network", "identity">>,
      oss |-> <<"identity">>,
      quota |-> <<"identity">>,
      security |-> <<"identity">>,
      tagging |-> <<"identity">>,
      vlan |-> <<"network", "identity">> ]

\* SERVICE_DEPENDENCIES.get(service, [])
DepsOf(table, service) ==
    IF service \in DOMAIN table THEN table[service] ELSE << >>

Elems(seq) == { seq[i] : i \in DOMAIN seq }

----------------------------------------------------------------------------
(* sorted(): insertion into an alphabetically ordered list *)

RECURSIVE Insert(_, _)
Insert(seq, x) ==
    IF seq = << >> THEN << x >>
    ELSE IF Rank(x) < Rank(Head(seq)) THEN << x >> \o seq
    ELSE << Head(seq) >> \o Insert(Tail(seq), x)

RECURSIVE Sorted(_)
Sorted(seq) ==
    IF seq = << >> THEN << >>
    ELSE Insert(Sorted(Tail(seq)), Head(seq))

\* sorted(list(a_set))
RECURSIVE SetToSortedSeq(_)
SetToSortedSeq(S) ==
    IF S = {} THEN << >>
    ELSE LET x == CHOOSE y \in S : \A z \in S : Rank(y) <= Rank(z)
         IN  << x >> \o SetToSortedSeq(S \ {x})

----------------------------------------------------------------------------
(* topological_sort *)

\* variant of AddEdges: the in-degree is set to 1 instead of being incremented
RECURSIVE AddEdgesCountOnce(_, _, _, _)
AddEdgesCountOnce(g, service, deps, cand) ==
    IF deps = << >> THEN g
    ELSE LET dep == Head(deps)
             g1 == IF dep \in cand
                   THEN [ graph |-> [g.graph EXCEPT ![dep] = Append(@, service)],
                          in_degree |-> [g.in_degree EXCEPT ![service] = 1] ]
                   ELSE g
         IN  AddEdgesCountOnce(g1, service, Tail(deps), cand)

\* variant of AddEdges: a prerequisite counts whether or not it is a candidate
RECURSIVE AddEdgesAllDeps(_, _, _, _)
AddEdgesAllDeps(g, service, deps, cand) ==
    IF deps = << >> THEN g
    ELSE LET dep == Head(deps)
             g1 == [ graph |-> IF dep \in cand
                               THEN [g.graph EXCEPT ![dep] = Append(@, service)]
                               ELSE g.graph,
                     in_degree |-> [g.in_degree EXCEPT ![service] = @ + 1] ]
         IN  AddEdgesAllDeps(g1, service, Tail(deps), cand)

\* inner loop "for dep in deps": one edge dep -> service per listed prerequisite
\* that is itself a candidate
RECURSIVE AddEdges(_, _, _, _)
AddEdges(g, service, deps, cand) ==
    IF deps = << >> THEN g
    ELSE LET dep == Head(deps)
             g1 == IF dep \in cand
                   THEN [ graph |-> [g.graph EXCEPT ![dep] = Append(@, service)],
                          in_degree |-> [g.in_degree EXCEPT ![service] = @ + 1] ]
                   ELSE g
         IN  AddEdges(g1, service, Tail(deps), cand)

\* outer loop "for service in services"
RECURSIVE BuildGraph(_, _, _, _)
BuildGraph(g, rest, table, cand) ==
    IF rest = << >> THEN g
    ELSE BuildGraph(AddEdges(g, Head(rest), DepsOf(table, Head(rest)), cand),
                    Tail(rest), table, cand)

\* variant of Release: a dependent joins the next level as soon as one of its
\* prerequisites is processed, whatever in-degree is left
RECURSIVE ReleaseOnFirstPrereq(_, _)
ReleaseOnFirstPrereq(st, dependents) ==
    IF dependents = << >> THEN st
    ELSE LET d == Head(dependents)
             deg == st.in_degree[d] - 1
             st1 == [ in_degree |-> [st.in_degree EXCEPT ![d] = deg],
                      next_level |-> IF deg >= 0 THEN Append(st.next_level, d)
                                     ELSE st.next_level ]
         IN  ReleaseOnFirstPrereq(st1, Tail(dependents))

\* "for dependent in graph[service]": decrement, collect those reaching 0
RECURSIVE Release(_, _)
Release(st, dependents) ==
    IF dependents = << >> THEN st
    ELSE LET d == Head(dependents)
             deg == st.in_degree[d] - 1
             st1 == [ in_degree |-> [st.in_degree EXCEPT ![d] = deg],
                      next_level |-> IF deg = 0 THEN Append(st.next_level, d)
                                     ELSE st.next_level ]
         IN  Release(st1, Tail(dependents))

\* "for service in current_level"
RECURSIVE ProcessLevel(_, _, _)
ProcessLevel(st, current_level, graph) ==
    IF current_level = << >> THEN st
    ELSE ProcessLevel(Release(st, graph[Head(current_level)]),
                      Tail(current_level), graph)

\* variant of Kahn: a level is appended in the order its services were found
RECURSIVE KahnUnsorted(_, _, _, _)
KahnUnsorted(levels, current_level, in_degree, graph) ==
    IF current_level = << >> THEN [ levels |-> levels, in_degree |-> in_degree ]
    ELSE LET st == ProcessLevel([ in_degree |-> in_degree, next_level |-> << >> ],
                                current_level, graph)
         IN  KahnUnsorted(Append(levels, current_level), st.next_level,
                          st.in_degree, graph)

\* variant of Kahn: the loop appends the level before testing it, so the
\* empty level that ends it is appended too
RECURSIVE KahnAppendsLast(_, _, _, _)
KahnAppendsLast(levels, current_level, in_degree, graph) ==
    IF current_level = << >>
    THEN [ levels |-> Append(levels, << >>), in_degree |-> in_degree ]
    ELSE LET st == ProcessLevel([ in_degree |-> in_degree, next_level |-> << >> ],
                                current_level, graph)
         IN  KahnAppendsLast(Append(levels, Sorted(current_level)), st.next_level,
                             st.in_degree, graph)

\* "while current_level"
RECURSIVE Kahn(_, _, _, _)
Kahn(levels, current_level, in_degree, graph) ==
    IF current_level = << >> THEN [ levels |-> levels, in_degree |-> in_degree ]
    ELSE LET st == ProcessLevel([ in_degree |-> in_degree, next_level |-> << >> ],
                                current_level, graph)
         IN  Kahn(Append(levels, Sorted(current_level)), st.next_level,
                  st.in_degree, graph)

RECURSIVE SumLen(_)
SumLen(levels) ==
    IF levels = << >> THEN 0 ELSE Len(Head(levels)) + SumLen(Tail(levels))

InitialGraph(services) ==
    [ graph |-> [ s \in Elems(services) |-> << >> ],
      in_degree |-> [ s \in Elems(services) |-> 0 ] ]

\* variant of ProvidedOrder: the singleton levels are put in alphabetical order
ProvidedOrderSorted(services) ==
    [ i \in DOMAIN services |-> << Sorted(services)[i] >> ]

\* variant of RemainingLevel: the remaining services are not sorted
RemainingLevelUnsorted(services, in_degree) ==
    LET blocked(s) == in_degree[s] > 0
    IN  SelectSeq(services, blocked)

\* variant of RemainingLevel: every service is appended, placed or not
RemainingLevelAll(services, in_degree) == Sorted(services)

\* line 124: [[s] for s in services]
ProvidedOrder(services) == [ i \in DOMAIN services |-> << services[i] >> ]

\* lines 141-144: sorted([s for s in services if in_degree[s] > 0])
RemainingLevel(services, in_degree) ==
    LET blocked(s) == in_degree[s] > 0
    IN  Sorted(SelectSeq(services, blocked))

TopologicalSort(services, table) ==
    LET g == BuildGraph(InitialGraph(services), services, table, Elems(services))
        zero(s) == g.in_degree[s] = 0
        current_level == SelectSeq(services, zero)
    IN  IF current_level = << >>
        THEN [ levels |-> ProvidedOrder(services),
               warning |-> "using_provided_order" ]
        ELSE LET k == Kahn(<< >>, current_level, g.in_degree, g.graph)
             IN  IF SumLen(k.levels) # Len(services)
                 THEN [ levels |-> Append(k.levels, RemainingLevel(services, k.in_degree)),
                        warning |-> "circular" ]
                 ELSE [ levels |-> k.levels, warning |-> "none" ]

----------------------------------------------------------------------------
(* The run configuration *)

NoArgs == [ dry_run |-> FALSE, parallel |-> FALSE, max_workers |-> 1, action |-> "plan" ]

----------------------------------------------------------------------------
(* The text terraform prints: a list of lines, each line the list of its    *)
(* whitespace-separated words (what line.split() returns)                   *)

DigitWords == << "0", "1", "2", "3" >>

\* int(word) succeeds
IsInt(word) == \E n \in DOMAIN DigitWords : DigitWords[n] = word

\* int(word)
ToInt(word) == (CHOOSE n \in DOMAIN DigitWords : DigitWords[n] = word) - 1

\* "sub in word" for the words of the vocabulary
HasSubstring(word, sub) ==
    \/ word = sub
    \/ sub = "added" /\ word = "added,"
    \/ sub = "changed" /\ word = "changed,"
    \/ sub = "destroyed" /\ word = "destroyed."

NoSummary == [ add |-> 0, change |-> 0, destroy |-> 0 ]

\* variant of PlanParts: the number is taken three words back, before the
\* "to" of "3 to add,"
RECURSIVE PlanPartsSkippingTo(_, _, _)
PlanPartsSkippingTo(summary, parts, i) ==
    IF i > Len(parts) THEN summary
    ELSE LET set(field) == IF i > 2 /\ IsInt(parts[i - 2])
                           THEN [summary EXCEPT ![field] = ToInt(parts[i - 2])]
                           ELSE summary
             next == IF parts[i] = "add," /\ i > 1 THEN set("add")
                     ELSE IF parts[i] = "change," /\ i > 1 THEN set("change")
                     ELSE IF parts[i] = "destroy." /\ i > 1 THEN set("destroy")
                     ELSE summary
         IN  PlanPartsSkippingTo(next, parts, i + 1)

\* parse_plan_summary lines 533-548: "for i, part in enumerate(parts)"; a
\* counter is set from the word just before "add," / "change," / "destroy."
\* and left alone when int() raises
RECURSIVE PlanParts(_, _, _)
PlanParts(summary, parts, i) ==
    IF i > Len(parts) THEN summary
    ELSE LET set(field) == IF IsInt(parts[i - 1])
                           THEN [summary EXCEPT ![field] = ToInt(parts[i - 1])]
                           ELSE summary
             next == IF parts[i] = "add," /\ i > 1 THEN set("add")
                     ELSE IF parts[i] = "change," /\ i > 1 THEN set("change")
                     ELSE IF parts[i] = "destroy." /\ i > 1 THEN set("destroy")
                     ELSE summary
         IN  PlanParts(next, parts, i + 1)

\* parse_plan_summary lines 530-532: "for line in output.split('\n')"
RECURSIVE PlanLines(_, _)
PlanLines(summary, lines) ==
    IF lines = << >> THEN summary
    ELSE LET line == Head(lines)
             has_plan == \E k \in DOMAIN line : HasSubstring(line[k], "Plan:")
         IN  PlanLines(IF has_plan THEN PlanParts(summary, line, 1) ELSE summary,
                       Tail(lines))

\* parse_plan_summary (lines 526-550)
ParsePlanSummary(output) == PlanLines(NoSummary, output)

\* 'Apply complete!' in line or 'Destroy complete!' in line
HasComplete(line) ==
    \E k \in DOMAIN line :
        /\ k + 1 \in DOMAIN line
        /\ line[k] \in { "Apply", "Destroy" }
        /\ line[k + 1] = "complete!"

\* variant of ApplyField: the number is taken after the word, not before it
ApplyFieldAfter(summary, line, field, sub) ==
    LET hits == { k \in DOMAIN line : HasSubstring(line[k], sub) }
    IN  IF hits = {} THEN summary
        ELSE LET k == CHOOSE h \in hits : \A g \in hits : h <= g
             IN  IF k + 1 \in DOMAIN line /\ IsInt(line[k + 1])
                 THEN [summary EXCEPT ![field] = ToInt(line[k + 1])]
                 ELSE summary

\* parse_apply_summary lines 560-574: int(line.split(sub)[0].split()[-1]), the
\* word before the first occurrence of sub; left alone when that raises
ApplyField(summary, line, field, sub) ==
    LET hits == { k \in DOMAIN line : HasSubstring(line[k], sub) }
    IN  IF hits = {} THEN summary
        ELSE LET k == CHOOSE h \in hits : \A g \in hits : h <= g
             IN  IF k > 1 /\ IsInt(line[k - 1])
                 THEN [summary EXCEPT ![field] = ToInt(line[k - 1])]
                 ELSE summary

RECURSIVE ApplyLines(_, _)
ApplyLines(summary, lines) ==
    IF lines = << >> THEN summary
    ELSE LET line == Head(lines)
             s1 == ApplyField(summary, line, "add", "added")
             s2 == ApplyField(s1, line, "change", "changed")
             s3 == ApplyField(s2, line, "destroy", "destroyed")
         IN  ApplyLines(IF HasComplete(line) THEN s3 ELSE summary, Tail(lines))

\* parse_apply_summary (lines 553-576)
ParseApplySummary(output) == ApplyLines(NoSummary, output)

\* texts of the tool: no summary line, terraform's plan summary, a plan line
\* without the "to" words, terraform's apply summary
TextNoChanges == << << "No", "changes." >> >>
TextPlan == << << "Plan:", "3", "to", "add,", "1", "to", "change,", "0", "to", "destroy." >> >>
TextPlanTerse == << << "Plan:", "1", "add,", "2", "change,", "3", "destroy." >> >>
TextApply ==
    << << "Apply", "complete!", "Resources:", "2", "added,", "0", "changed,", "1",
          "destroyed." >> >>

\* summary lines of both kinds that show words where the numbers belong
TextGarbled ==
    << << "Plan:", "some", "add,", "none", "change,", "all", "destroy." >>,
       << "Apply", "complete!", "Resources:", "added,", "changed,", "destroyed." >> >>

Stdouts == { TextNoChanges, TextPlan, TextPlanTerse, TextApply, TextGarbled }

----------------------------------------------------------------------------
(* The per-service result dict *)

\* result['error']: the f-string that built it, the step and the exit code it
\* names, and the tool or exception text it embeds
ErrorMsg(kind, step, code, text) ==
    [ kind |-> kind, step |-> step, code |-> code, text |-> text ]

\* 'error': None
NoError == ErrorMsg("None", "", 0, "")

\* the result dict as execute_terraform_for_service creates it (lines 351-361);
\* retry_count holds the value of the key, or nothing when the dict has no
\* such key
Result(service, success, error) ==
    [ service |-> service, success |-> success, duration |-> "0.0",
      output |-> << >>, error |-> error, resources_created |-> 0,
      resources_changed |-> 0, resources_destroyed |-> 0, retry_count |-> << 0 >> ]

\* main lines 877-886: the simulated result of a dry run, a dict without the
\* key retry_count
DryRunResult(service) ==
    [ Result(service, TRUE, NoError) EXCEPT
        !.output = << << "[DRY-RUN]", "Simulated", args.action, "for", service >> >>,
        !.retry_count = << >> ]

NoResult == Result("", FALSE, ErrorMsg("unset", "", 0, ""))

\* what terraform init prints, and what terraform writes to stderr when a
\* step fails; the text of an exception raised while launching a step
InitStdout == << << "Initializing", "the", "backend..." >> >>
InitStderr == "Error: Failed to query available provider packages"
TfStderr == "Error: 404-NotAuthorizedOrNotFound"
LaunchError == "[Errno 2] No such file or directory: 'terraform'"

\* line 380: f"Init failed: {init_result.stderr}"
InitFailedError(stderr) == ErrorMsg("Init failed: ", "", 0, stderr)

\* line 460: f"Terraform {action} timed out after 30 minutes"
TimeoutError(action) == ErrorMsg("Terraform timed out after 30 minutes", action, 0, "")

\* line 463: str(e)
ExceptionError(text) == ErrorMsg("str(e)", "", 0, text)

\* lines 424 and 446: f"Plan failed (exit code {rc}): {stderr}"
ActionFailedError(action, rc, stderr) ==
    ErrorMsg(IF action = "plan" THEN "Plan failed (exit code" ELSE "Apply failed (exit code",
             "", rc, stderr)

\* line 466: result['duration'] = time.time() - start_time
Elapsed(res) == [res EXCEPT !.duration = "elapsed"]

\* one subprocess.run call: the command, how it ended, its exit code (-1 when
\* it did not exit) and its stdout
ProcRun(cmd, ended, rc, stdout) ==
    [ cmd |-> cmd, ended |-> ended, rc |-> rc, stdout |-> stdout ]

----------------------------------------------------------------------------
(* Change detection: paths, the working directory, and the pure parts of    *)
(* detect_changed_services, detect_module_changes,                          *)
(* get_services_using_modules and get_all_terraform_services                *)

\* Path(working_dir).name
WorkingDirName == "terraform"

\* a changed file path is held as file_path.split('/') gives it
PathNetwork == << "terraform", "network", "main.tf" >>
PathElsewhere == << "infra", "compute", "main.tf" >>
PathHidden == << "terraform", HiddenName, "providers.tf" >>
PathModule == << "modules", "net-common", "main.tf" >>
PathModuleNet == << "modules", "net", "outputs.tf" >>
PathTopLevel == << "README.md" >>

Paths == { PathNetwork, PathElsewhere, PathHidden, PathModule, PathModuleNet, PathTopLevel }

\* a line of the changed-files list that is empty once stripped
BlankLine == << >>

\* line 248: [line.strip() for line in f if line.strip()]
StripLines(lines) ==
    LET kept(line) == line # BlankLine
    IN  SelectSeq(lines, kept)

\* the entries of the working directory: nothing, a plain file, or a
\* directory with its *.tf files; a *.tf file can be read or not, and names
\* the modules its text refers to
DirNames == { HiddenName, "compute", "network" }

TfFile(readable, refs) == [ readable |-> readable, refs |-> refs ]

Absent == [ kind |-> "absent", tf |-> << >> ]
PlainFile == [ kind |-> "file", tf |-> << >> ]
Dir(tf) == [ kind |-> "dir", tf |-> tf ]

\* name.startswith('.')
IsHidden(name) == name = HiddenName

\* service_path.is_dir() and list(service_path.glob('*.tf')) is not empty
HoldsTf(fs, name) ==
    /\ name \in DOMAIN fs
    /\ fs[name].kind = "dir"
    /\ fs[name].tf # << >>

\* variant of DirectService: the directory is not looked at
DirectServiceUnchecked(fs, parts) ==
    IF Len(parts) >= 2 /\ parts[1] = WorkingDirName THEN { parts[2] } ELSE {}

\* lines 266-275: the service a changed file belongs to, if any
DirectService(fs, parts) ==
    IF /\ Len(parts) >= 2
       /\ parts[1] = WorkingDirName
       /\ HoldsTf(fs, parts[2])
    THEN { parts[2] }
    ELSE {}

\* lines 265-275
DirectServices(fs, files) ==
    UNION { DirectService(fs, files[i]) : i \in DOMAIN files }

\* lines 179-184: file_path.startswith('modules/') makes split('/') give at
\* least two parts
ModuleOf(parts) ==
    IF Len(parts) >= 2 /\ parts[1] = "modules" THEN { parts[2] } ELSE {}

\* lines 178-185
ModulesOf(files) == UNION { ModuleOf(files[i]) : i \in DOMAIN files }

\* line 215: f'modules/{module}' in content, for a text that refers to the
\* module ref: 'modules/net' is found in 'modules/net-common'
RefersTo(ref, module) ==
    \/ ref = module
    \/ ref = "net-common" /\ module = "net"

\* variant of UsesModules: only the first *.tf file of the directory is read
UsesModulesFirstFileOnly(entry, modules) ==
    /\ entry.tf # << >>
    /\ entry.tf[1].readable
    /\ \E m \in modules, r \in entry.tf[1].refs : RefersTo(r, m)

\* lines 210-220: some *.tf file of the directory can be read and refers to
\* one of the modules
UsesModules(entry, modules) ==
    \E i \in DOMAIN entry.tf :
        /\ entry.tf[i].readable
        /\ \E m \in modules, r \in entry.tf[i].refs : RefersTo(r, m)

\* lines 205-220
ServicesUsingModules(fs, modules) ==
    { d \in DOMAIN fs : fs[d].kind = "dir" /\ ~IsHidden(d) /\ UsesModules(fs[d], modules) }

\* lines 211-220: a read_text that raised while the directories were scanned
ReadFailed(fs) ==
    \E d \in DOMAIN fs :
        /\ fs[d].kind = "dir" /\ ~IsHidden(d)
        /\ \E i \in DOMAIN fs[d].tf : ~fs[d].tf[i].readable

\* lines 304-310
AllTerraformServices(fs) ==
    SetToSortedSeq({ d \in DOMAIN fs : fs[d].kind = "dir" /\ ~IsHidden(d) /\ fs[d].tf # << >> })

\* one external call made by change detection, and whether it raised
Call(what, ok) == [ what |-> what, ok |-> ok ]

\* the environment of a run that is past change detection
NoEnv == [ wd |-> "ok", fs |-> [ d \in DirNames |-> Absent ],
           oci_config |-> TRUE, env_vars |-> TRUE, base_ref |-> TRUE ]

DetectIdle ==
    /\ changed_files = << >>
    /\ detected_services = {}
    /\ changed_modules = {}
    /\ detect_log = << >>

----------------------------------------------------------------------------
(* Initial states *)

EngineIdle ==
    /\ level_num = 0
    /\ all_results = << >>
    /\ results = << >>
    /\ idx = 0
    /\ work_queue = << >>
    /\ svc = [ s \in AllNames |-> "idle" ]
    /\ svc_result = [ s \in AllNames |-> NoResult ]
    /\ finished = {}
    /\ waiter = << >>
    /\ yielded = {}
    /\ started_log = << >>
    /\ proc_log = [ s \in AllNames |-> << >> ]
    /\ completed_log = << >>
    /\ DetectIdle
    /\ exit_code = -1

(* Input space of the scheduler taken alone: duplicate-free candidate lists *)
(* in any order, and arbitrary tables, over a three-name universe           *)

SortUniverse == { "compute", "identity", "network" }

RECURSIVE SeqsUpTo(_, _)
SeqsUpTo(S, n) ==
    IF n = 0 THEN { << >> }
    ELSE LET shorter == SeqsUpTo(S, n - 1)
         IN  shorter \cup { Append(q, x) : q \in shorter, x \in S }

IsDupFree(seq) == \A i, j \in DOMAIN seq : seq[i] = seq[j] => i = j

CandidateLists ==
    { q \in SeqsUpTo(SortUniverse, Cardinality(SortUniverse)) : IsDupFree(q) }

\* a table lists prerequisites for some of the names; the others have no key
SortTables ==
    UNION { [ D -> SeqsUpTo(SortUniverse, MaxDeps) ] : D \in SUBSET SortUniverse }

InitSort ==
    /\ pc = "sort"
    /\ changed_services \in CandidateLists
    /\ dep_table \in SortTables
    /\ execution_levels = << >>
    /\ warning = "none"
    /\ args = NoArgs
    /\ tool_stdout = TextNoChanges
    /\ env = NoEnv
    /\ EngineIdle

(* Input space of the scheduler with the shipped table: any set of its     *)
(* service names, as the sorted list detection returns                      *)

\* ServiceNames is in alphabetical order: the names of S in that order are
\* sorted(list(S))
SortedNames(S) == LET member(x) == x \in S IN SelectSeq(ServiceNames, member)

ShippedCandidates == { SortedNames(S) : S \in SUBSET AllNames }

InitShipped ==
    /\ pc = "sort"
    /\ changed_services \in ShippedCandidates
    /\ dep_table = SERVICE_DEPENDENCIES
    /\ execution_levels = << >>
    /\ warning = "none"
    /\ args = NoArgs
    /\ tool_stdout = TextNoChanges
    /\ env = NoEnv
    /\ EngineIdle

(* Input space of a whole run: detect_changed_services returns a sorted,    *)
(* duplicate-free list (lines 289, 312) of directory names, here drawn from *)
(* five names of the shipped table; the table is the shipped one            *)

EngineUniverse == { "compute", "identity", "kms", "network", "oss" }

EngineCandidates == { SetToSortedSeq(S) : S \in SUBSET EngineUniverse }

\* the text the tool prints during a whole run
EngineStdouts == { TextPlan }

ArgsSpace ==
    [ dry_run : BOOLEAN, parallel : BOOLEAN, max_workers : 0..MaxWorkers,
      action : {"plan", "apply"} ]

InitEngine ==
    /\ pc = "start"
    /\ changed_services \in EngineCandidates
    /\ dep_table = SERVICE_DEPENDENCIES
    /\ execution_levels = << >>
    /\ warning = "none"
    /\ args \in ArgsSpace
    /\ tool_stdout \in EngineStdouts
    /\ env = NoEnv
    /\ EngineIdle

(* Input space of the runner taken alone: main has just called              *)
(* execute_terraform_for_service for the only service of a one-level plan,  *)
(* and the tool prints any of the texts                                     *)

InitRunner ==
    \E s \in EngineUniverse :
        /\ pc = "seq"
        /\ changed_services = << s >>
        /\ dep_table = SERVICE_DEPENDENCIES
        /\ execution_levels = << << s >> >>
        /\ warning = "none"
        /\ args \in { a \in ArgsSpace : ~a.dry_run /\ ~a.parallel /\ a.max_workers = 1 }
        /\ tool_stdout \in Stdouts
        /\ level_num = 1
        /\ all_results = << >>
        /\ results = << >>
        /\ idx = 1
        /\ work_queue = << >>
        /\ svc = [ t \in AllNames |-> IF t = s THEN "init" ELSE "idle" ]
        /\ svc_result = [ t \in AllNames |-> NoResult ]
        /\ finished = {}
        /\ waiter = << >>
        /\ yielded = {}
        /\ started_log = << s >>
        /\ proc_log = [ t \in AllNames |-> << >> ]
        /\ completed_log = << >>
        /\ env = NoEnv
        /\ DetectIdle
        /\ exit_code = -1

(* Input space of main's prologue and of change detection: either any     *)
(* working directory with the credentials in place, or one working         *)
(* directory (or none) with any combination of credentials and dry-run     *)

TfFiles ==
    { TfFile(TRUE, {}), TfFile(TRUE, { "net-common" }), TfFile(FALSE, { "net-common" }) }

Entries ==
    { Absent, PlainFile, Dir(<< >>) }
        \cup { Dir(<< f >>) : f \in TfFiles }
        \cup { Dir(<< TfFile(FALSE, { "net-common" }), TfFile(TRUE, { "net-common" }) >>) }

HiddenEntries == { Absent, Dir(<< TfFile(TRUE, { "net-common" }) >>) }

FileSystems ==
    { fs \in [ DirNames -> Entries \cup HiddenEntries ] :
        /\ fs[HiddenName] \in HiddenEntries
        /\ \A d \in DirNames \ { HiddenName } : fs[d] \in Entries }

SampleFs ==
    [ d \in DirNames |-> IF d = HiddenName THEN Absent
                         ELSE Dir(<< TfFile(TRUE, { "net-common" }) >>) ]

DetectEnvs ==
    { [ wd |-> w, fs |-> f, oci_config |-> TRUE, env_vars |-> TRUE,
        base_ref |-> b ] :
        w \in { "ok", "unlistable" }, f \in FileSystems, b \in BOOLEAN }

ConfigEnvs ==
    { [ wd |-> w, fs |-> IF w = "missing" THEN NoEnv.fs ELSE SampleFs,
        oci_config |-> c, env_vars |-> v, base_ref |-> TRUE ] :
        w \in { "missing", "ok" }, c \in BOOLEAN, v \in BOOLEAN }

\* the lines of a changed-files list, and the paths of a diff
ChangedFileLists == SeqsUpTo(Paths \cup { BlankLine }, MaxFiles)
GitLists == SeqsUpTo(Paths, MaxFiles)

InitDetect ==
    /\ pc = "main"
    /\ changed_services = << >>
    /\ dep_table = SERVICE_DEPENDENCIES
    /\ execution_levels = << >>
    /\ warning = "none"
    /\ args \in { a \in ArgsSpace : ~a.parallel /\ a.max_workers = 1 /\ a.action = "plan" }
    /\ \/ env \in DetectEnvs /\ ~args.dry_run
       \/ env \in ConfigEnvs
    /\ tool_stdout = TextNoChanges
    /\ EngineIdle

----------------------------------------------------------------------------
(* main, up to change detection (lines 825-843) *)

prologue_frame == <<changed_services, dep_table, execution_levels, warning, args,
                    tool_stdout, env, level_num, engine_vars>>

\* lines 826-830
MainWorkingDirMissing ==
    /\ pc = "main"
    /\ env.wd = "missing"
    /\ pc' = "done"
    /\ exit_code' = 1
    /\ UNCHANGED <<prologue_frame, changed_files, detected_services, changed_modules,
                   detect_log>>

\* lines 833-835 and 321-326: validate_oci_cli_config finds no config file
\* and calls sys.exit(1)
MainOciConfigMissing ==
    /\ pc = "main"
    /\ env.wd # "missing"
    /\ ~args.dry_run
    /\ ~env.oci_config
    /\ pc' = "done"
    /\ exit_code' = 1
    /\ UNCHANGED <<prologue_frame, changed_files, detected_services, changed_modules,
                   detect_log>>

\* lines 833-838 and 328-332: the validation is skipped in a dry run, and
\* missing environment variables only print a warning
MainValidated ==
    /\ pc = "main"
    /\ env.wd # "missing"
    /\ args.dry_run \/ env.oci_config
    /\ pc' = "detect"
    /\ UNCHANGED <<prologue_frame, changed_files, detected_services, changed_modules,
                   detect_log, exit_code>>

----------------------------------------------------------------------------
(* detect_changed_services (lines 229-292) *)

LoggedCall(what, ok) == detect_log' = Append(detect_log, Call(what, ok))

\* line 245: no path was given, or no file is at the path
DetectListAbsent ==
    /\ pc = "detect"
    /\ pc' = "diff"
    /\ UNCHANGED <<prologue_frame, changed_files, detected_services, changed_modules,
                   detect_log, exit_code>>

\* lines 247-248: open or read raises
DetectListUnreadable ==
    /\ pc = "detect"
    /\ LoggedCall("open", FALSE)
    /\ pc' = "fallback"
    /\ UNCHANGED <<prologue_frame, changed_files, detected_services, changed_modules,
                   exit_code>>

\* lines 245-252: the list is read; the diff is needed when it holds no
\* path.  The log keeps whether it held one.
DetectListRead ==
    /\ pc = "detect"
    /\ \E lines \in ChangedFileLists :
         /\ changed_files' = StripLines(lines)
         /\ pc' = IF StripLines(lines) # << >> THEN "direct" ELSE "diff"
         /\ LoggedCall(IF StripLines(lines) # << >> THEN "list" ELSE "empty_list", TRUE)
    /\ UNCHANGED <<prologue_frame, detected_services, changed_modules, exit_code>>

\* lines 253-254: raise ValueError
DetectNoBaseRef ==
    /\ pc = "diff"
    /\ ~env.base_ref
    /\ LoggedCall("base_ref", FALSE)
    /\ pc' = "fallback"
    /\ UNCHANGED <<prologue_frame, changed_files, detected_services, changed_modules,
                   exit_code>>

\* lines 257-261: git.Repo or the diff raises
DetectDiffRaises ==
    /\ pc = "diff"
    /\ env.base_ref
    /\ LoggedCall("git_diff", FALSE)
    /\ pc' = "fallback"
    /\ UNCHANGED <<prologue_frame, changed_files, detected_services, changed_modules,
                   exit_code>>

\* lines 257-263
DetectDiff ==
    /\ pc = "diff"
    /\ env.base_ref
    /\ \E files \in GitLists : changed_files' = files
    /\ LoggedCall("git_diff", TRUE)
    /\ pc' = "direct"
    /\ UNCHANGED <<prologue_frame, detected_services, changed_modules, exit_code>>

\* lines 265-278
DetectDirect ==
    /\ pc = "direct"
    /\ detected_services' = DirectServices(env.fs, changed_files)
    /\ pc' = "modules"
    /\ UNCHANGED <<prologue_frame, changed_files, changed_modules, detect_log, exit_code>>

\* variant of DetectModuleChanges: the diff is asked whatever the list holds
DetectModuleChangesAlwaysDiff ==
    /\ pc = "modules"
    /\ \/ /\ \E files \in GitLists : changed_modules' = ModulesOf(files)
          /\ LoggedCall("git_diff_modules", TRUE)
       \/ /\ changed_modules' = {}
          /\ LoggedCall("git_diff_modules", FALSE)
    /\ pc' = "affected"
    /\ UNCHANGED <<prologue_frame, changed_files, detected_services, exit_code>>

\* line 281 and detect_module_changes (lines 162-191): the modules are read
\* off the list when it holds a path; otherwise the diff is asked again, and
\* a failure of that call gives no module
DetectModuleChanges ==
    /\ pc = "modules"
    /\ \/ /\ changed_files # << >>
          /\ changed_modules' = ModulesOf(changed_files)
          /\ UNCHANGED detect_log
       \/ /\ changed_files = << >>
          /\ \E files \in GitLists : changed_modules' = ModulesOf(files)
          /\ LoggedCall("git_diff_modules", TRUE)
       \/ /\ changed_files = << >>
          /\ changed_modules' = {}
          /\ LoggedCall("git_diff_modules", FALSE)
    /\ pc' = "affected"
    /\ UNCHANGED <<prologue_frame, changed_files, detected_services, exit_code>>

\* lines 282-289: the services that use a changed module are added, and the
\* sorted list is returned
DetectAffected ==
    /\ pc = "affected"
    /\ env.wd = "ok" \/ changed_modules = {}
    /\ LET affected == IF changed_modules = {} THEN {}
                       ELSE ServicesUsingModules(env.fs, changed_modules)
       IN  /\ detected_services' = detected_services \cup affected
           /\ changed_services' = SetToSortedSeq(detected_services \cup affected)
    /\ detect_log' = IF changed_modules # {} /\ ReadFailed(env.fs)
                     THEN Append(detect_log, Call("read_text", FALSE))
                     ELSE detect_log
    /\ pc' = "start"
    /\ UNCHANGED <<dep_table, execution_levels, warning, args, tool_stdout, env,
                   level_num, engine_vars, changed_files, changed_modules, exit_code>>

\* line 205: iterdir raises inside get_services_using_modules
DetectAffectedRaises ==
    /\ pc = "affected"
    /\ env.wd = "unlistable" /\ changed_modules # {}
    /\ LoggedCall("iterdir", FALSE)
    /\ pc' = "fallback"
    /\ UNCHANGED <<prologue_frame, changed_files, detected_services, changed_modules,
                   exit_code>>

\* lines 291-294: except Exception, return get_all_terraform_services
DetectFallback ==
    /\ pc = "fallback"
    /\ env.wd = "ok"
    /\ changed_services' = AllTerraformServices(env.fs)
    /\ pc' = "start"
    /\ UNCHANGED <<dep_table, execution_levels, warning, args, tool_stdout, env,
                   level_num, engine_vars, changed_files, detected_services,
                   changed_modules, detect_log, exit_code>>

\* line 305: iterdir raises inside get_all_terraform_services, which runs in
\* the except clause: the exception leaves detect_changed_services and main,
\* and the handler of lines 954-958 exits with status 1
DetectFallbackRaises ==
    /\ pc = "fallback"
    /\ env.wd = "unlistable"
    /\ LoggedCall("iterdir", FALSE)
    /\ pc' = "fatal"
    /\ exit_code' = 1
    /\ UNCHANGED <<prologue_frame, changed_files, detected_services, changed_modules>>

DetectNext ==
    \/ MainWorkingDirMissing
    \/ MainOciConfigMissing
    \/ MainValidated
    \/ DetectListAbsent
    \/ DetectListUnreadable
    \/ DetectListRead
    \/ DetectNoBaseRef
    \/ DetectDiffRaises
    \/ DetectDiff
    \/ DetectDirect
    \/ DetectModuleChanges
    \/ DetectAffected
    \/ DetectAffectedRaises
    \/ DetectFallback
    \/ DetectFallbackRaises

SpecDetect == InitDetect /\ [][DetectNext]_vars

----------------------------------------------------------------------------
(* main *)

\* lines 848-851: nothing changed, return 0
MainNoChanges ==
    /\ pc = "start"
    /\ changed_services = << >>
    /\ pc' = "done"
    /\ exit_code' = 0
    /\ UNCHANGED <<detect_vars, tool_stdout, changed_services, dep_table, execution_levels, warning, args,
                   level_num, engine_vars>>

MainHasChanges ==
    /\ pc = "start"
    /\ changed_services # << >>
    /\ pc' = "sort"
    /\ UNCHANGED <<detect_vars, tool_stdout, changed_services, dep_table, execution_levels, warning, args,
                   level_num, exit_code, engine_vars>>

\* line 857: execution_levels = topological_sort(changed_services)
CallTopologicalSort ==
    /\ pc = "sort"
    /\ LET r == TopologicalSort(changed_services, dep_table)
       IN  /\ execution_levels' = r.levels
           /\ warning' = r.warning
    /\ pc' = "level"
    /\ level_num' = 1
    /\ UNCHANGED <<detect_vars, tool_stdout, changed_services, dep_table, args, exit_code, engine_vars>>

\* the level the for loop of line 868 is at
level_services ==
    IF level_num \in DOMAIN execution_levels THEN execution_levels[level_num] ELSE << >>

InLoop == level_num \in DOMAIN execution_levels

\* variant: only the first service of the level is simulated
DryRunResultsFirstOnly(level) ==
    IF level = << >> THEN << >> ELSE << DryRunResult(Head(level)) >>

\* lines 873-886: dry run, one simulated result per service of the level
RECURSIVE DryRunResults(_)
DryRunResults(level) ==
    IF level = << >> THEN << >>
    ELSE << DryRunResult(Head(level)) >> \o DryRunResults(Tail(level))

DryRunLevel ==
    /\ pc = "level" /\ InLoop
    /\ args.dry_run
    /\ all_results' = all_results \o DryRunResults(level_services)
    /\ pc' = "check"
    /\ UNCHANGED <<detect_vars, tool_stdout, changed_services, dep_table, execution_levels, warning, args,
                   level_num, results, idx, work_queue, svc, svc_result, finished,
                   waiter, yielded, started_log, exit_code, proc_log, completed_log>>

\* line 887: elif args.parallel and len(level_services) > 1
ParallelBranch == args.parallel /\ Len(level_services) > 1

Running == { s \in AllNames : svc[s] \in {"init", "action"} }

input_vars == <<changed_services, dep_table, args, tool_stdout, detect_vars>>
plan_vars == <<execution_levels, warning>>

----------------------------------------------------------------------------
(* execute_terraform_for_service: the runner of one service *)

InitExitCodes == { 0, 1 }

ExitCodes == { 0, 1, 2 }

\* variant: only exit code 0 makes the step a success
AcceptedZeroOnly(action, rc) == rc = 0

\* lines 420 and 442: the exit codes that make the step a success
Accepted(action, rc) ==
    IF action = "plan" THEN rc \in { 0, 2 } ELSE rc = 0

\* the runner returns its result; a future that completes once as_completed
\* is waiting is appended to the waiter's finished list
Finish(s, res) ==
    /\ svc' = [svc EXCEPT ![s] = "done"]
    /\ svc_result' = [svc_result EXCEPT ![s] = res]
    /\ waiter' = IF pc = "collect" THEN Append(waiter, s) ELSE waiter
    /\ completed_log' = IF pc \in { "submit", "collect" } THEN Append(completed_log, s)
                        ELSE completed_log

Logged(s, run) == proc_log' = [proc_log EXCEPT ![s] = Append(@, run)]

runner_frame == <<pc, input_vars, plan_vars, level_num, exit_code, all_results,
                  results, idx, work_queue, finished, yielded, started_log>>

\* lines 379-392: init exited non-zero; the function returns at line 392,
\* before line 466 sets the duration
InitFailedResult(s, stderr) ==
    [ Result(s, FALSE, InitFailedError(stderr)) EXCEPT
        !.output = InitStdout \o << << stderr >> >> ]

\* variant: the exit code of init is not looked at
InitNeverFails(rc) == FALSE

\* line 379: if init_result.returncode != 0
InitFails(rc) == rc # 0

\* lines 371-392: terraform init exits
InitReturns(s) ==
    /\ svc[s] = "init"
    /\ \E rc \in InitExitCodes :
         /\ Logged(s, ProcRun("init", "exit", rc, InitStdout))
         /\ IF InitFails(rc)
            THEN Finish(s, InitFailedResult(s, InitStderr))
            ELSE /\ svc' = [svc EXCEPT ![s] = "action"]
                 /\ UNCHANGED <<svc_result, waiter, completed_log>>
    /\ UNCHANGED runner_frame

\* lines 459-461: subprocess.TimeoutExpired, whichever step raised it
TimeoutResult(s, step) == Elapsed(Result(s, FALSE, TimeoutError(args.action)))

\* variant of ExceptionResult: the exception comes after success was set
ExceptionResultAfterSuccess(s, text) == Elapsed(Result(s, TRUE, ExceptionError(text)))

\* lines 462-464: any other exception
ExceptionResult(s, text) == Elapsed(Result(s, FALSE, ExceptionError(text)))

\* lines 371-377, 459-461: terraform init exceeds its 300 s
InitTimeout(s) ==
    /\ svc[s] = "init"
    /\ Logged(s, ProcRun("init", "timeout", -1, << >>))
    /\ Finish(s, TimeoutResult(s, "init"))
    /\ UNCHANGED runner_frame

\* variant: the exception leaves the runner and ends main
InitRaisesUncaught(s) ==
    /\ svc[s] = "init"
    /\ Logged(s, ProcRun("init", "raised", -1, << >>))
    /\ pc' = "fatal"
    /\ exit_code' = 1
    /\ UNCHANGED <<input_vars, plan_vars, level_num, all_results, results, idx,
                   work_queue, svc, svc_result, finished, waiter, yielded, started_log,
                   completed_log>>

\* lines 462-464: any other exception while running init
InitRaises(s) ==
    /\ svc[s] = "init"
    /\ Logged(s, ProcRun("init", "raised", -1, << >>))
    /\ Finish(s, ExceptionResult(s, LaunchError))
    /\ UNCHANGED runner_frame

\* variant: the step counts as a success only when a summary was parsed
ActionResultNeedsSummary(s, action, rc, stdout, stderr) ==
    LET summary == IF action = "plan" THEN ParsePlanSummary(stdout)
                   ELSE ParseApplySummary(stdout)
        ok == Accepted(action, rc) /\ summary # NoSummary
    IN  Elapsed([ Result(s, ok, IF ok THEN NoError
                                ELSE ActionFailedError(action, rc, stderr)) EXCEPT
                    !.output = IF ok THEN stdout
                               ELSE stdout \o << << >>, << "STDERR:" >>, << stderr >> >>,
                    !.resources_created = summary.add,
                    !.resources_changed = summary.change,
                    !.resources_destroyed = summary.destroy ])

\* lines 410-457: the result built from tf_result
ActionResult(s, action, rc, stdout, stderr) ==
    LET summary == IF action = "plan" THEN ParsePlanSummary(stdout)
                   ELSE ParseApplySummary(stdout)
        ok == Accepted(action, rc)
    IN  Elapsed([ Result(s, ok, IF ok THEN NoError
                                ELSE ActionFailedError(action, rc, stderr)) EXCEPT
                    !.output = IF ok THEN stdout
                               ELSE stdout \o << << >>, << "STDERR:" >>, << stderr >> >>,
                    !.resources_created = summary.add,
                    !.resources_changed = summary.change,
                    !.resources_destroyed = summary.destroy ])

\* lines 402-457: terraform plan / apply exits
ActionReturns(s) ==
    /\ svc[s] = "action"
    /\ \E rc \in ExitCodes :
         /\ Logged(s, ProcRun(args.action, "exit", rc, tool_stdout))
         /\ Finish(s, ActionResult(s, args.action, rc, tool_stdout, TfStderr))
    /\ UNCHANGED runner_frame

\* lines 402-408, 459-461: plan / apply exceeds its 1800 s
ActionTimeout(s) ==
    /\ svc[s] = "action"
    /\ Logged(s, ProcRun(args.action, "timeout", -1, << >>))
    /\ Finish(s, TimeoutResult(s, args.action))
    /\ UNCHANGED runner_frame

\* lines 462-464: any other exception while running plan / apply
ActionRaises(s) ==
    /\ svc[s] = "action"
    /\ Logged(s, ProcRun(args.action, "raised", -1, << >>))
    /\ Finish(s, ExceptionResult(s, LaunchError))
    /\ UNCHANGED runner_frame

----------------------------------------------------------------------------
(* main, sequential branch (lines 897-907) *)

SeqEnter ==
    /\ pc = "level" /\ InLoop
    /\ ~args.dry_run /\ ~ParallelBranch
    /\ pc' = "seq"
    /\ idx' = 1
    /\ UNCHANGED <<input_vars, plan_vars, level_num, exit_code, all_results, results,
                   work_queue, svc, svc_result, finished, waiter, yielded, started_log, proc_log, completed_log>>

\* variant: the level is walked from its last service to its first
SeqCallLastFirst ==
    LET next == level_services[Len(level_services) + 1 - idx]
    IN  /\ pc = "seq" /\ idx \in DOMAIN level_services
        /\ svc[next] = "idle"
        /\ svc' = [svc EXCEPT ![next] = "init"]
        /\ started_log' = Append(started_log, next)
        /\ UNCHANGED <<pc, input_vars, plan_vars, level_num, exit_code, all_results,
                       results, idx, work_queue, svc_result, finished, waiter, yielded,
                       proc_log, completed_log>>

\* line 901: call the runner for the next service of the level
SeqCall ==
    /\ pc = "seq" /\ idx \in DOMAIN level_services
    /\ svc[level_services[idx]] = "idle"
    /\ svc' = [svc EXCEPT ![level_services[idx]] = "init"]
    /\ started_log' = Append(started_log, level_services[idx])
    /\ UNCHANGED <<pc, input_vars, plan_vars, level_num, exit_code, all_results,
                   results, idx, work_queue, svc_result, finished, waiter, yielded, proc_log, completed_log>>

\* variant: a service that did not succeed is run again instead of being recorded
SeqReturnRetries ==
    /\ pc = "seq" /\ idx \in DOMAIN level_services
    /\ svc[level_services[idx]] = "done"
    /\ IF svc_result[level_services[idx]].success
       THEN /\ all_results' = Append(all_results, svc_result[level_services[idx]])
            /\ idx' = idx + 1
            /\ UNCHANGED svc
       ELSE /\ svc' = [svc EXCEPT ![level_services[idx]] = "idle"]
            /\ UNCHANGED <<all_results, idx>>
    /\ UNCHANGED <<pc, input_vars, plan_vars, level_num, exit_code, results,
                   work_queue, svc_result, finished, waiter, yielded, started_log, proc_log, completed_log>>

\* line 907: all_results.append(result)
SeqReturn ==
    /\ pc = "seq" /\ idx \in DOMAIN level_services
    /\ svc[level_services[idx]] = "done"
    /\ all_results' = Append(all_results, svc_result[level_services[idx]])
    /\ idx' = idx + 1
    /\ UNCHANGED <<pc, input_vars, plan_vars, level_num, exit_code, results,
                   work_queue, svc, svc_result, finished, waiter, yielded, started_log, proc_log, completed_log>>

\* variant of SeqDone: the loop is also left after a result that is not a
\* success
SeqDoneOnFailure ==
    /\ pc = "seq"
    /\ \/ idx > Len(level_services)
       \/ idx > 1 /\ ~svc_result[level_services[idx - 1]].success
    /\ pc' = "check"
    /\ UNCHANGED <<input_vars, plan_vars, level_num, exit_code, all_results, results,
                   idx, work_queue, svc, svc_result, finished, waiter, yielded,
                   started_log, proc_log, completed_log>>

\* lines 897-907: the for loop over the level is over
SeqDone ==
    /\ pc = "seq" /\ idx > Len(level_services)
    /\ pc' = "check"
    /\ UNCHANGED <<input_vars, plan_vars, level_num, exit_code, all_results, results,
                   idx, work_queue, svc, svc_result, finished, waiter, yielded,
                   started_log, proc_log, completed_log>>

----------------------------------------------------------------------------
(* execute_services_in_parallel (lines 470-523), called from main line 889 *)

\* ThreadPoolExecutor(max_workers) raises ValueError for max_workers <= 0; the
\* exception leaves main and the script exits 1 (lines 954-958)
PoolValueError ==
    /\ pc = "level" /\ InLoop
    /\ ~args.dry_run /\ ParallelBranch
    /\ args.max_workers <= 0
    /\ pc' = "fatal"
    /\ exit_code' = 1
    /\ UNCHANGED <<input_vars, plan_vars, level_num, engine_vars>>

ParallelEnter ==
    /\ pc = "level" /\ InLoop
    /\ ~args.dry_run /\ ParallelBranch
    /\ args.max_workers > 0
    /\ pc' = "submit"
    /\ idx' = 1
    /\ results' = << >>
    /\ completed_log' = << >>
    /\ UNCHANGED <<input_vars, plan_vars, level_num, exit_code, all_results,
                   work_queue, svc, svc_result, finished, waiter, yielded, started_log, proc_log>>

\* variant of Submit: two work items are queued for the service
SubmitTwice ==
    /\ pc = "submit" /\ idx \in DOMAIN level_services
    /\ work_queue' = work_queue \o << level_services[idx], level_services[idx] >>
    /\ svc' = [svc EXCEPT ![level_services[idx]] = "queued"]
    /\ idx' = idx + 1
    /\ UNCHANGED <<pc, input_vars, plan_vars, level_num, exit_code, all_results,
                   results, svc_result, finished, waiter, yielded, started_log, proc_log, completed_log>>

\* lines 494-503: executor.submit queues one work item per service
Submit ==
    /\ pc = "submit" /\ idx \in DOMAIN level_services
    /\ work_queue' = Append(work_queue, level_services[idx])
    /\ svc' = [svc EXCEPT ![level_services[idx]] = "queued"]
    /\ idx' = idx + 1
    /\ UNCHANGED <<pc, input_vars, plan_vars, level_num, exit_code, all_results,
                   results, svc_result, finished, waiter, yielded, started_log, proc_log, completed_log>>

\* variant of FreeSlot: one thread of the pool never takes work
FreeSlotKeepsOneIdle == Cardinality(Running) + 1 < args.max_workers

\* variant of FreeSlot: the pool starts a thread per work item, without limit
FreeSlotUnbounded == TRUE

\* the pool never has more than max_workers threads, each running one item
FreeSlot == Cardinality(Running) < args.max_workers

\* a pool thread takes the oldest work item and calls the runner
WorkerStart ==
    /\ work_queue # << >>
    /\ FreeSlot
    /\ svc' = [svc EXCEPT ![Head(work_queue)] = "init"]
    /\ work_queue' = Tail(work_queue)
    /\ started_log' = Append(started_log, Head(work_queue))
    /\ UNCHANGED <<pc, input_vars, plan_vars, level_num, exit_code, all_results,
                   results, idx, svc_result, finished, waiter, yielded, proc_log, completed_log>>

\* line 505: as_completed(future_to_service) is called: the futures already
\* finished are set aside, a waiter is installed on the others
AsCompleted ==
    /\ pc = "submit" /\ idx > Len(level_services)
    /\ finished' = { s \in Elems(level_services) : svc[s] = "done" }
    /\ waiter' = << >>
    /\ yielded' = {}
    /\ pc' = "collect"
    /\ UNCHANGED <<input_vars, plan_vars, level_num, exit_code, all_results, results,
                   idx, work_queue, svc, svc_result, started_log, proc_log, completed_log>>

\* variant of Yield: of the futures that finished later, the one that finished
\* last is yielded first
YieldNewestFirst(s) ==
    /\ pc = "collect"
    /\ s \notin yielded
    /\ \/ /\ s \in finished
          /\ waiter' = waiter
       \/ /\ finished \subseteq yielded
          /\ waiter # << >> /\ s = waiter[Len(waiter)]
          /\ waiter' = SubSeq(waiter, 1, Len(waiter) - 1)
    /\ results' = Append(results, svc_result[s])
    /\ yielded' = yielded \cup {s}
    /\ UNCHANGED <<pc, input_vars, plan_vars, level_num, exit_code, all_results,
                   idx, work_queue, svc, svc_result, finished, started_log, proc_log,
                   completed_log>>

\* lines 505-509: as_completed yields the set-aside futures (a set: any
\* order), then the others in the order they finished
Yield(s) ==
    /\ pc = "collect"
    /\ s \notin yielded
    /\ \/ /\ s \in finished
          /\ waiter' = waiter
       \/ /\ finished \subseteq yielded
          /\ waiter # << >> /\ s = Head(waiter)
          /\ waiter' = Tail(waiter)
    /\ results' = Append(results, svc_result[s])
    /\ yielded' = yielded \cup {s}
    /\ UNCHANGED <<pc, input_vars, plan_vars, level_num, exit_code, all_results,
                   idx, work_queue, svc, svc_result, finished, started_log, proc_log, completed_log>>

\* variant of AsCompletedExhausted: the loop is left at the first failed result
AsCompletedStopsOnFailure ==
    \/ yielded = Elems(level_services)
    \/ \E i \in DOMAIN results : ~results[i].success

\* the for loop of line 505 ends when every future has been yielded
AsCompletedExhausted == yielded = Elems(level_services)

\* leaving the with block of line 491 joins the pool threads (shutdown(wait=True))
ExecutorJoined == work_queue = << >> /\ Running = {}

\* variant of LevelResolved: the function returns with the first result, the
\* pool is not joined
LevelResolvedOnFirstResult == yielded # {}

LevelResolved == AsCompletedExhausted /\ ExecutorJoined

\* line 523 return results; main line 896 all_results.extend(level_results);
\* the locals of execute_services_in_parallel and of as_completed are gone
ParallelReturn ==
    /\ pc = "collect"
    /\ LevelResolved
    /\ all_results' = all_results \o results
    /\ pc' = "check"
    /\ results' = << >>
    /\ finished' = {}
    /\ waiter' = << >>
    /\ yielded' = {}
    /\ completed_log' = << >>
    /\ UNCHANGED <<input_vars, plan_vars, level_num, exit_code, idx,
                   work_queue, svc, svc_result, started_log, proc_log>>

----------------------------------------------------------------------------
(* main, end of the loop body and reporting (lines 909-945) *)

\* Python's seq[-n:]; seq[-0:] is the whole list
LastN(seq, n) ==
    IF n = 0 \/ n >= Len(seq) THEN seq
    ELSE SubSeq(seq, Len(seq) - n + 1, Len(seq))

\* variant of LevelSuccess: only the last result is inspected
LevelSuccessLastOnly ==
    LET tail == LastN(all_results, 1)
    IN  \A i \in DOMAIN tail : tail[i].success

\* variant of LevelSuccess: any() instead of all()
LevelSuccessAny ==
    LET tail == LastN(all_results, Len(level_services))
    IN  \E i \in DOMAIN tail : tail[i].success

\* line 910
LevelSuccess ==
    LET tail == LastN(all_results, Len(level_services))
    IN  \A i \in DOMAIN tail : tail[i].success

\* lines 911-914: break
FailFastBreak ==
    /\ pc = "check"
    /\ ~LevelSuccess /\ ~args.dry_run
    /\ pc' = "report"
    /\ UNCHANGED <<input_vars, plan_vars, level_num, exit_code, engine_vars>>

\* next iteration of the for loop, or its normal end
NextLevel ==
    /\ pc = "check"
    /\ ~(~LevelSuccess /\ ~args.dry_run)
    /\ level_num' = level_num + 1
    /\ pc' = IF level_num + 1 \in DOMAIN execution_levels THEN "level" ELSE "report"
    /\ UNCHANGED <<input_vars, plan_vars, exit_code, engine_vars>>

\* variant: the run is reported as failed only when no service succeeded
ReportFailsWhenNoneSucceeded ==
    /\ pc = "report"
    /\ LET success_count == Cardinality({ i \in DOMAIN all_results : all_results[i].success })
       IN  exit_code' = IF success_count = 0 THEN 1 ELSE 0
    /\ pc' = "done"
    /\ UNCHANGED <<input_vars, plan_vars, level_num, engine_vars>>

\* lines 926-945
Report ==
    /\ pc = "report"
    /\ LET success_count == Cardinality({ i \in DOMAIN all_results : all_results[i].success })
           total_count == Len(all_results)
       IN  exit_code' = IF success_count < total_count THEN 1 ELSE 0
    /\ pc' = "done"
    /\ UNCHANGED <<input_vars, plan_vars, level_num, engine_vars>>

----------------------------------------------------------------------------
(* The first orchestrator, oci-terraform-orchestrator.py: no dependency     *)
(* ordering, no pool.  Its main keeps the results in a list of its own,     *)
(* held here in all_results.                                                *)

\* v1 line 272: 'error': ''
V1NoError == ErrorMsg("''", "", 0, "")

\* v1 lines 268-277: the result dict as the runner creates it; it has no key
\* retry_count
V1Result(service, success, error) ==
    [ service |-> service, success |-> success, duration |-> "0",
      output |-> << >>, error |-> error, resources_created |-> 0,
      resources_changed |-> 0, resources_destroyed |-> 0, retry_count |-> << >> ]

\* v1 lines 582-591: the simulated result of a dry run
V1DryRunResult(service) ==
    [ V1Result(service, TRUE, NoError) EXCEPT
        !.duration = "0.0",
        !.output = << << "[DRY-RUN]", "Simulated", args.action, "for", service >> >> ]

\* v1 line 299: f"Terraform init failed:\n{init_result.stderr}"; the function
\* returns at line 301, before the duration is set
V1InitFailedResult(s, stderr) ==
    V1Result(s, FALSE, ErrorMsg("Terraform init failed:", "", 0, stderr))

\* v1 line 365: the words of the line from position k on match
\* Plan:\s+(\d+)\s+to\s+add,\s+(\d+)\s+to\s+change,\s+(\d+)\s+to\s+destroy
\* (the last word only has to start with "destroy")
V1PlanMatch(line, k) ==
    /\ k + 9 <= Len(line)
    /\ HasSubstring(line[k], "Plan:")
    /\ IsInt(line[k + 1]) /\ line[k + 2] = "to" /\ line[k + 3] = "add,"
    /\ IsInt(line[k + 4]) /\ line[k + 5] = "to" /\ line[k + 6] = "change,"
    /\ IsInt(line[k + 7]) /\ line[k + 8] = "to"
    /\ line[k + 9] \in { "destroy", "destroy.", "destroyed", "destroyed." }

\* v1 lines 360-369: the sum of the three numbers of the first match, or 0
V1ParsePlanSummary(text) ==
    LET hits == { i \in DOMAIN text : \E k \in DOMAIN text[i] : V1PlanMatch(text[i], k) }
    IN  IF hits = {} THEN 0
        ELSE LET i == CHOOSE j \in hits : \A h \in hits : j <= h
                 k == CHOOSE m \in DOMAIN text[i] :
                        /\ V1PlanMatch(text[i], m)
                        /\ \A n \in DOMAIN text[i] : V1PlanMatch(text[i], n) => m <= n
             IN  ToInt(text[i][k + 1]) + ToInt(text[i][k + 4]) + ToInt(text[i][k + 7])

\* v1 lines 383-386: the words of the line from position k on match
\* Apply complete!\s+Resources:\s+(\d+)\s+added,\s+(\d+)\s+changed,\s+(\d+)\s+destroyed
V1ApplyMatch(line, k) ==
    /\ k + 8 <= Len(line)
    /\ HasSubstring(line[k], "Apply") /\ line[k + 1] = "complete!"
    /\ line[k + 2] = "Resources:"
    /\ IsInt(line[k + 3]) /\ line[k + 4] = "added,"
    /\ IsInt(line[k + 5]) /\ line[k + 6] = "changed,"
    /\ IsInt(line[k + 7]) /\ line[k + 8] \in { "destroyed", "destroyed." }

\* v1 lines 372-393
V1ParseApplySummary(text) ==
    LET hits == { i \in DOMAIN text : \E k \in DOMAIN text[i] : V1ApplyMatch(text[i], k) }
    IN  IF hits = {} THEN NoSummary
        ELSE LET i == CHOOSE j \in hits : \A h \in hits : j <= h
                 k == CHOOSE m \in DOMAIN text[i] :
                        /\ V1ApplyMatch(text[i], m)
                        /\ \A n \in DOMAIN text[i] : V1ApplyMatch(text[i], n) => m <= n
             IN  [ add |-> ToInt(text[i][k + 3]), change |-> ToInt(text[i][k + 5]),
                   destroy |-> ToInt(text[i][k + 7]) ]

\* v1 lines 321-346 and 355: the result built from tf_result
V1ActionResult(s, action, rc, stdout, stderr) ==
    LET ok == IF action = "plan" THEN rc \in { 0, 2 } ELSE rc = 0
        stats == IF ~ok THEN NoSummary
                 ELSE IF action = "apply" THEN V1ParseApplySummary(stdout)
                 ELSE IF rc = 2
                 THEN [ add |-> 0, change |-> V1ParsePlanSummary(stdout), destroy |-> 0 ]
                 ELSE NoSummary
    IN  Elapsed([ V1Result(s, ok, IF ok THEN V1NoError ELSE ErrorMsg("{stderr}", "", 0, stderr))
                    EXCEPT !.output = stdout,
                           !.resources_created = stats.add,
                           !.resources_changed = stats.change,
                           !.resources_destroyed = stats.destroy ])

\* v1 lines 348-349 and 355
V1TimeoutResult(s) == Elapsed(V1Result(s, FALSE, TimeoutError(args.action)))

\* v1 lines 351-352 and 355: f"Unexpected error: {str(e)}"
V1ExceptionResult(s, text) ==
    Elapsed(V1Result(s, FALSE, ErrorMsg("Unexpected error: ", "", 0, text)))

v1_frame == <<input_vars, plan_vars, level_num, results, work_queue, finished, waiter,
              yielded, completed_log>>

\* v1 lines 566-569: nothing changed, return 0
V1NoChanges ==
    /\ pc = "v1_start"
    /\ changed_services = << >>
    /\ pc' = "done"
    /\ exit_code' = 0
    /\ UNCHANGED <<v1_frame, all_results, idx, svc, svc_result, started_log, proc_log>>

\* v1 lines 571-576
V1HasChanges ==
    /\ pc = "v1_start"
    /\ changed_services # << >>
    /\ pc' = "v1_loop"
    /\ idx' = 1
    /\ UNCHANGED <<v1_frame, all_results, svc, svc_result, started_log, proc_log, exit_code>>

\* v1 lines 579-591, 600: a dry run appends a simulated result
V1DryRun ==
    /\ pc = "v1_loop" /\ idx \in DOMAIN changed_services
    /\ args.dry_run
    /\ all_results' = Append(all_results, V1DryRunResult(changed_services[idx]))
    /\ idx' = idx + 1
    /\ UNCHANGED <<v1_frame, pc, svc, svc_result, started_log, proc_log, exit_code>>

\* v1 lines 592-598: the runner is called for the next service
V1Call ==
    /\ pc = "v1_loop" /\ idx \in DOMAIN changed_services
    /\ ~args.dry_run
    /\ svc[changed_services[idx]] = "idle"
    /\ svc' = [svc EXCEPT ![changed_services[idx]] = "init"]
    /\ started_log' = Append(started_log, changed_services[idx])
    /\ UNCHANGED <<v1_frame, pc, all_results, idx, svc_result, proc_log, exit_code>>

\* v1 lines 286-303, 348-353: terraform init exits, exceeds its 600 s, or
\* cannot be launched
V1Init(s) ==
    /\ pc = "v1_loop" /\ svc[s] = "init"
    /\ \/ \E rc \in InitExitCodes :
            /\ Logged(s, ProcRun("init", "exit", rc, InitStdout))
            /\ IF rc # 0
               THEN Finish(s, V1InitFailedResult(s, InitStderr))
               ELSE /\ svc' = [svc EXCEPT ![s] = "action"]
                    /\ UNCHANGED <<svc_result, waiter, completed_log>>
       \/ /\ Logged(s, ProcRun("init", "timeout", -1, << >>))
          /\ Finish(s, V1TimeoutResult(s))
       \/ /\ Logged(s, ProcRun("init", "raised", -1, << >>))
          /\ Finish(s, V1ExceptionResult(s, LaunchError))
    /\ UNCHANGED runner_frame

\* v1 lines 305-357: terraform plan / apply exits, exceeds its 1800 s, or
\* cannot be launched
V1Action(s) ==
    /\ pc = "v1_loop" /\ svc[s] = "action"
    /\ \/ \E rc \in ExitCodes :
            /\ Logged(s, ProcRun(args.action, "exit", rc, tool_stdout))
            /\ Finish(s, V1ActionResult(s, args.action, rc, tool_stdout, TfStderr))
       \/ /\ Logged(s, ProcRun(args.action, "timeout", -1, << >>))
          /\ Finish(s, V1TimeoutResult(s))
       \/ /\ Logged(s, ProcRun(args.action, "raised", -1, << >>))
          /\ Finish(s, V1ExceptionResult(s, LaunchError))
    /\ UNCHANGED runner_frame

\* variant of V1Return: the loop ends at a result that is not a success
V1ReturnStopsOnFailure ==
    /\ pc = "v1_loop" /\ idx \in DOMAIN changed_services
    /\ svc[changed_services[idx]] = "done"
    /\ all_results' = Append(all_results, svc_result[changed_services[idx]])
    /\ idx' = IF svc_result[changed_services[idx]].success THEN idx + 1
              ELSE Len(changed_services) + 1
    /\ UNCHANGED <<v1_frame, pc, svc, svc_result, started_log, proc_log, exit_code>>

\* v1 line 600: results.append(result)
V1Return ==
    /\ pc = "v1_loop" /\ idx \in DOMAIN changed_services
    /\ svc[changed_services[idx]] = "done"
    /\ all_results' = Append(all_results, svc_result[changed_services[idx]])
    /\ idx' = idx + 1
    /\ UNCHANGED <<v1_frame, pc, svc, svc_result, started_log, proc_log, exit_code>>

\* v1 lines 602-629: the loop is over; the summary, the audit log and the
\* exit status
V1Report ==
    /\ pc = "v1_loop" /\ idx > Len(changed_services)
    /\ LET success_count == Cardinality({ i \in DOMAIN all_results : all_results[i].success })
           total_count == Len(all_results)
       IN  exit_code' = IF success_count < total_count THEN 1 ELSE 0
    /\ pc' = "done"
    /\ UNCHANGED <<v1_frame, all_results, idx, svc, svc_result, started_log, proc_log>>

\* v1 lines 55-123: --parallel is accepted but main never reads it, and there
\* is no --max-workers; both are held at one value
V1ArgsSpace == { a \in ArgsSpace : ~a.parallel /\ a.max_workers = 1 }

V1Universe == { "compute", "identity", "network", "oss" }

\* v1 lines 216 and 242: both detection paths return a sorted list
V1Candidates == { SortedNames(S) : S \in SUBSET V1Universe }

InitV1 ==
    /\ pc = "v1_start"
    /\ changed_services \in V1Candidates
    /\ dep_table = SERVICE_DEPENDENCIES
    /\ execution_levels = << >>
    /\ warning = "none"
    /\ args \in V1ArgsSpace
    /\ tool_stdout \in { TextPlan, TextApply }
    /\ env = NoEnv
    /\ EngineIdle

V1Next ==
    \/ V1NoChanges
    \/ V1HasChanges
    \/ V1DryRun
    \/ V1Call
    \/ \E s \in V1Universe : V1Init(s)
    \/ \E s \in V1Universe : V1Action(s)
    \/ V1Return
    \/ V1Report

SpecV1 == InitV1 /\ [][V1Next]_vars

----------------------------------------------------------------------------
(* Specifications *)

SortNext == CallTopologicalSort

SpecSort == InitSort /\ [][SortNext]_vars

SpecShipped == InitShipped /\ [][SortNext]_vars

RunnerStep ==
    \E s \in EngineUniverse :
        \/ InitReturns(s)
        \/ InitTimeout(s)
        \/ InitRaises(s)
        \/ ActionReturns(s)
        \/ ActionTimeout(s)
        \/ ActionRaises(s)

SpecRunner == InitRunner /\ [][RunnerStep]_vars

Next ==
    \/ MainNoChanges
    \/ MainHasChanges
    \/ CallTopologicalSort
    \/ DryRunLevel
    \/ SeqEnter
    \/ SeqCall
    \/ SeqReturn
    \/ SeqDone
    \/ PoolValueError
    \/ ParallelEnter
    \/ Submit
    \/ WorkerStart
    \/ AsCompleted
    \/ \E s \in EngineUniverse : Yield(s)
    \/ ParallelReturn
    \/ RunnerStep
    \/ FailFastBreak
    \/ NextLevel
    \/ Report

Spec == InitEngine /\ [][Next]_vars

(* A whole run under fair scheduling.  The main thread and each pool thread *)
(* take their next step whenever they have one, and a subprocess.run call   *)
(* returns or raises, since both calls are made with a timeout (lines 376   *)
(* and 407).  The candidates are drawn from three names, and the table is   *)
(* the shipped one or the shipped one with a cycle between identity and     *)
(* network, so that the runs of both degraded plans are covered too.        *)

LiveUniverse == { "identity", "kms", "network" }

LiveCandidates ==
    { q \in SeqsUpTo(LiveUniverse, Cardinality(LiveUniverse)) :
        IsDupFree(q) /\ q = Sorted(q) }

LiveTables ==
    { SERVICE_DEPENDENCIES,
      [ SERVICE_DEPENDENCIES EXCEPT !.identity = << "network" >> ] }

InitLive ==
    /\ pc = "start"
    /\ changed_services \in LiveCandidates
    /\ dep_table \in LiveTables
    /\ execution_levels = << >>
    /\ warning = "none"
    /\ args \in ArgsSpace
    /\ tool_stdout \in EngineStdouts
    /\ env = NoEnv
    /\ EngineIdle

SpecLive == InitLive /\ [][Next]_vars /\ WF_vars(Next)

----------------------------------------------------------------------------
(* Vocabulary of the properties *)

Candidates == Elems(changed_services)

\* the prerequisites of s that are candidates too
InSetPrereqs(s) == Elems(DepsOf(dep_table, s)) \cap Candidates

RECURSIVE AncestorsFrom(_)
AncestorsFrom(S) ==
    LET more == S \cup UNION { InSetPrereqs(x) : x \in S }
    IN  IF more = S THEN S ELSE AncestorsFrom(more)

\* every candidate that s depends on, directly or not
Ancestors(s) == AncestorsFrom(InSetPrereqs(s))

\* the dependency edges restricted to the candidates have no cycle
Acyclic == \A s \in Candidates : s \notin Ancestors(s)

\* no candidate is free of in-set prerequisites
NoZeroInDegree == \A s \in Candidates : InSetPrereqs(s) # {}

\* the candidates no cycle blocks: the least set closed under "all in-set
\* prerequisites are in the set"
RECURSIVE GrowPlaceable(_)
GrowPlaceable(P) ==
    LET more == { s \in Candidates : InSetPrereqs(s) \subseteq P }
    IN  IF more = P THEN P ELSE GrowPlaceable(more)

Placeable == GrowPlaceable({})

Planned == pc \notin { "start", "sort" }

LevelsOf(s) == { i \in DOMAIN execution_levels : s \in Elems(execution_levels[i]) }

IsAlphabetical(seq) ==
    \A i, j \in DOMAIN seq : i < j => Rank(seq[i]) < Rank(seq[j])

\* no service of the level lists another service of the level as prerequisite
Independent(level) ==
    \A i, j \in DOMAIN level :
        level[i] # level[j] => level[j] \notin InSetPrereqs(level[i])

SingletonPlan ==
    /\ Len(execution_levels) = Len(changed_services)
    /\ \A i \in DOMAIN changed_services : execution_levels[i] = << changed_services[i] >>

\* the candidates in input order, restricted to a set
Restrict(seq, S) == LET keep(x) == x \in S IN SelectSeq(seq, keep)

----------------------------------------------------------------------------
(* Properties of topological_sort, checked under SpecSort *)

\* C2: for a candidate set whose in-set dependency edges are acyclic, every
\* service is in exactly one level and that level comes strictly after the
\* level of each of its in-set prerequisites.
C2_PrereqLevelsStrictlyEarlier ==
    (Planned /\ Acyclic) =>
        \A s \in Candidates :
            /\ Cardinality(LevelsOf(s)) = 1
            /\ \A d \in InSetPrereqs(s) :
                 \A i \in LevelsOf(s), j \in LevelsOf(d) : j < i

\* C2 witness: an acyclic chain of three candidates, listed out of order,
\* has been leveled into three levels
C2_Witness ==
    /\ Planned /\ Acyclic
    /\ Len(execution_levels) = 3
    /\ ~IsAlphabetical(changed_services)
    /\ \E s \in Candidates : Cardinality(InSetPrereqs(s)) = 2

\* C7 as stated: in every level of every plan no service depends on another
\* service of the same level.
C7_Original_EveryLevelIndependent ==
    Planned => \A i \in DOMAIN execution_levels : Independent(execution_levels[i])

\* C7 amended: in every level of every plan, other than the final level of
\* unplaced services appended when a circular dependency is detected, no
\* service depends (within the candidate set) on another service of the level.
C7_LeveledLevelsIndependent ==
    Planned =>
        \A i \in DOMAIN execution_levels :
            \/ warning = "circular" /\ i = Len(execution_levels)
            \/ Independent(execution_levels[i])

\* C7 witness: a level computed by leveling holds two services
C7_Witness ==
    /\ Planned
    /\ \E i \in DOMAIN execution_levels :
         /\ Len(execution_levels[i]) >= 2
         /\ ~(warning = "circular" /\ i = Len(execution_levels))
    /\ \E s \in Candidates : InSetPrereqs(s) # {}

\* C8: when no candidate has in-degree 0 under the in-set edges, the plan is
\* one singleton level per candidate in the order the candidates were given.
C8_NoZeroGivesProvidedOrder ==
    (Planned /\ NoZeroInDegree) =>
        /\ SingletonPlan
        /\ warning = "using_provided_order"

\* C8 witness: three blocked candidates given out of alphabetical order
C8_Witness ==
    /\ Planned /\ NoZeroInDegree
    /\ Len(changed_services) = 3
    /\ ~IsAlphabetical(changed_services)
    /\ SingletonPlan

\* C9: when leveling places fewer services than there are candidates, the plan
\* is the levels computed for the placeable candidates, unchanged, followed by
\* exactly one level holding the unplaced candidates and only those, in
\* alphabetical order.
C9_RemainderAppendedAsOneLevel ==
    (Planned /\ ~NoZeroInDegree /\ Placeable # Candidates) =>
        LET n == Len(execution_levels)
            leveled == TopologicalSort(Restrict(changed_services, Placeable), dep_table).levels
        IN  /\ n = Len(leveled) + 1
            /\ SubSeq(execution_levels, 1, n - 1) = leveled
            /\ Elems(execution_levels[n]) = Candidates \ Placeable
            /\ Len(execution_levels[n]) = Cardinality(Candidates \ Placeable)
            /\ IsAlphabetical(execution_levels[n])
            /\ \A i \in 1..(n - 1) : Elems(execution_levels[i]) \subseteq Placeable

\* C9 witness: one candidate was leveled and two that form a cycle, given in
\* reverse alphabetical order, were appended as the final level
C9_Witness ==
    /\ Planned /\ ~NoZeroInDegree
    /\ Cardinality(Candidates \ Placeable) = 2
    /\ Len(execution_levels) = 2
    /\ \E i, j \in DOMAIN changed_services :
         /\ i < j /\ Rank(changed_services[i]) > Rank(changed_services[j])
         /\ { changed_services[i], changed_services[j] } = Candidates \ Placeable

\* C10 as stated: for a candidate set with a dependency cycle the plan is one
\* singleton level per candidate in input order, with a warning.
C10_Original_CycleGivesSingletons ==
    (Planned /\ ~Acyclic) => (SingletonPlan /\ warning # "none")

\* C10 amended: for a candidate set with a dependency cycle a warning is
\* always emitted; the plan is one singleton level per candidate in input
\* order when no candidate has in-degree 0, and otherwise the leveled
\* placeable candidates followed by one final alphabetical level of the rest.
C10_CycleDegradesWithWarning ==
    (Planned /\ ~Acyclic) =>
        /\ warning # "none"
        /\ NoZeroInDegree => (SingletonPlan /\ warning = "using_provided_order")
        /\ ~NoZeroInDegree =>
             /\ warning = "circular"
             /\ Elems(execution_levels[Len(execution_levels)]) = Candidates \ Placeable
             /\ IsAlphabetical(execution_levels[Len(execution_levels)])
             /\ \A s \in Placeable : \A i \in LevelsOf(s) : i < Len(execution_levels)

\* C10 witness: a cycle of two candidates next to a free candidate: the plan
\* has a level of two services and is not the singleton plan
C10_Witness ==
    /\ Planned /\ ~Acyclic /\ ~NoZeroInDegree
    /\ ~SingletonPlan
    /\ Len(changed_services) = 3
    /\ warning = "circular"

----------------------------------------------------------------------------
(* Properties of the execution engine, checked under Spec *)

Dispatched(s) == svc[s] # "idle"

Succeeded(s) == svc[s] = "done" /\ svc_result[s].success

LevelSet(i) == Elems(execution_levels[i])

\* number of results the list holds for service s
ResultCount(s) == Cardinality({ i \in DOMAIN all_results : all_results[i].service = s })

\* the level has a service that ended without success
LevelFailed(i) == \E s \in LevelSet(i) : svc[s] = "done" /\ ~svc_result[s].success

\* C1: in a non-dry-run run over an acyclic candidate set, a service is
\* dispatched only when each of its in-set prerequisites has ended with success.
C1_StartedOnlyAfterPrereqsSucceeded ==
    (~args.dry_run /\ Acyclic) =>
        \A s \in Candidates :
            Dispatched(s) => \A d \in InSetPrereqs(s) : Succeeded(d)

\* C1 witness: in parallel mode with two workers, compute is running, its two
\* in-set prerequisites succeeded before, and a sibling of its level runs too
C1_Witness ==
    /\ ~args.dry_run /\ Acyclic
    /\ args.parallel /\ args.max_workers = 2
    /\ svc["compute"] = "action"
    /\ InSetPrereqs("compute") = { "identity", "network" }
    /\ Succeeded("identity") /\ Succeeded("network")
    /\ ResultCount("oss") = 1

\* C3: in a non-dry-run run, once a level has a service that did not succeed,
\* no service of a later level is ever dispatched or given a result; when main
\* reports, the result list holds one result per service of the attempted
\* levels (the failed level included), each as its runner produced it, and
\* nothing for later levels.
C3_FailFast ==
    ~args.dry_run =>
        /\ \A i, j \in DOMAIN execution_levels :
             (i < j /\ LevelFailed(i)) =>
                 \A t \in LevelSet(j) : ~Dispatched(t) /\ ResultCount(t) = 0
        /\ (pc \in { "report", "done" } /\ execution_levels # << >>) =>
             /\ level_num >= 1
             /\ \A i \in DOMAIN execution_levels :
                  \A s \in LevelSet(i) :
                      IF i <= level_num
                      THEN /\ ResultCount(s) = 1
                           /\ \E k \in DOMAIN all_results : all_results[k] = svc_result[s]
                           /\ svc[s] = "done"
                      ELSE ResultCount(s) = 0 /\ ~Dispatched(s)
             /\ \A i \in DOMAIN execution_levels : i < level_num => ~LevelFailed(i)
             /\ Len(all_results) = Cardinality(UNION { LevelSet(i) : i \in (1..level_num) \cap DOMAIN execution_levels })

\* C3 witness: the run ended after its second level, which held a success and
\* a timeout; the third level was never attempted
C3_Witness ==
    /\ ~args.dry_run /\ pc = "done"
    /\ Len(execution_levels) = 3 /\ level_num = 2
    /\ Len(all_results) = 3
    /\ all_results[2].success
    /\ all_results[3].error = TimeoutError(args.action)
    /\ \A t \in LevelSet(3) : ~Dispatched(t)
    /\ exit_code = 1

\* C4: in a non-dry-run run no service of a level is dispatched before every
\* service of every earlier level has ended, and main is at the fail-fast
\* check or past the level only when every service of the level has ended and
\* the pool holds no queued or running work.
C4_LevelBarrier ==
    ~args.dry_run =>
        /\ \A i, j \in DOMAIN execution_levels :
             (i < j /\ \E t \in LevelSet(j) : Dispatched(t)) =>
                 \A s \in LevelSet(i) : svc[s] = "done"
        /\ \A i \in DOMAIN execution_levels :
             (i < level_num \/ (i = level_num /\ pc \in { "check", "report", "done" })) =>
                 \A s \in LevelSet(i) : svc[s] = "done" /\ ResultCount(s) = 1
        /\ pc \in { "check", "report", "done" } =>
             /\ work_queue = << >>
             /\ Running = {}

\* C4 witness: a second parallel level is being collected, with one service
\* still running and one already finished, after a first parallel level of
\* two services
C4_Witness ==
    /\ ~args.dry_run /\ args.parallel
    /\ pc = "collect" /\ level_num = 2
    /\ Len(execution_levels[1]) >= 2
    /\ Running # {}
    /\ \E s \in LevelSet(2) : svc[s] = "done"

\* C5: the number of running service executions never exceeds max_workers in
\* a parallel level and never exceeds one otherwise; a work item still in the
\* pool's queue has not been started.
C5_BoundedParallelism ==
    /\ Cardinality(Running) <= (IF ParallelBranch THEN args.max_workers ELSE 1)
    /\ \A i \in DOMAIN work_queue : svc[work_queue[i]] = "queued"
    /\ ~ParallelBranch => work_queue = << >>

\* C5 witness: two workers, both busy, and a third service waits in the queue
C5_Witness ==
    /\ args.parallel /\ args.max_workers = 2
    /\ Cardinality(Running) = 2
    /\ work_queue # << >>

\* C6: when a parallel level is resolved, every service of the level has run
\* to a terminal state and the level's slice of the result list holds exactly
\* one result per service, the one its runner produced, whatever the other
\* services' outcomes.
C6_ParallelSiblingsAllRun ==
    (~args.dry_run /\ ParallelBranch /\ pc = "check") =>
        LET tail == LastN(all_results, Len(level_services))
        IN  /\ Len(all_results) >= Len(level_services)
            /\ \A s \in Elems(level_services) :
                 /\ svc[s] = "done"
                 /\ Cardinality({ i \in DOMAIN tail : tail[i].service = s }) = 1
                 /\ \A i \in DOMAIN tail : tail[i].service = s => tail[i] = svc_result[s]
                 /\ ResultCount(s) = 1

\* C6 witness: in a parallel level the service dispatched second failed and
\* was collected first, and the one dispatched first went on to succeed
C6_Witness ==
    /\ ~args.dry_run /\ ParallelBranch /\ pc = "check"
    /\ Len(all_results) >= 2
    /\ LET tail == LastN(all_results, Len(level_services))
       IN  /\ tail[1].service = level_services[2]
           /\ ~tail[1].success
           /\ tail[2].service = level_services[1]
           /\ tail[2].success

----------------------------------------------------------------------------
(* Vocabulary of the runner properties *)

\* the subprocess.run calls made for s so far, and the i-th of them
Runs(s) == proc_log[s]
Invoked(s, cmd) == \E i \in DOMAIN proc_log[s] : proc_log[s][i].cmd = cmd
Exited(run) == run.ended = "exit"

\* the runner of s has returned; the result it returned
Returned(s) == svc[s] = "done"
ResultOf(s) == svc_result[s]

Deltas(res) == << res.resources_created, res.resources_changed, res.resources_destroyed >>

\* the plan / apply step of s ran after a successful init and exited
ActionExited(s) ==
    /\ Len(Runs(s)) = 2
    /\ Runs(s)[2].cmd = args.action
    /\ Exited(Runs(s)[2])

----------------------------------------------------------------------------
(* C11: for every service the first step invoked is init; when init exits  *)
(* with a non-zero code the runner returns an unsuccessful result whose     *)
(* error carries init's stderr, and plan / apply is never invoked for it.   *)
C11_InitFirstAndGating ==
    \A s \in AllNames :
        /\ Runs(s) # << >> => Runs(s)[1].cmd = "init"
        /\ \A i \in DOMAIN Runs(s) :
             Runs(s)[i].cmd # "init" =>
                 /\ i = 2
                 /\ Exited(Runs(s)[1]) /\ Runs(s)[1].rc = 0
        /\ (Runs(s) # << >> /\ Exited(Runs(s)[1]) /\ Runs(s)[1].rc # 0) =>
             /\ Returned(s)
             /\ ~ResultOf(s).success
             /\ ResultOf(s).error.kind = "Init failed: "
             /\ ResultOf(s).error.text = InitStderr
             /\ ~Invoked(s, "plan") /\ ~Invoked(s, "apply")

C11_Witness ==
    \E s \in AllNames :
        /\ Runs(s) = << ProcRun("init", "exit", 1, InitStdout) >>
        /\ Returned(s)
        /\ ResultOf(s).error = InitFailedError(InitStderr)

(* C12: a plan step that runs after a successful init and exits gives a     *)
(* successful result exactly when its exit code is 0 or 2; any other exit   *)
(* code gives an unsuccessful result whose error carries the exit code and  *)
(* the tool's stderr.                                                       *)
C12_PlanSuccessIffZeroOrTwo ==
    \A s \in AllNames :
        (args.action = "plan" /\ ActionExited(s)) =>
            /\ Returned(s)
            /\ ResultOf(s).success <=> Runs(s)[2].rc \in { 0, 2 }
            /\ ResultOf(s).success => ResultOf(s).error = NoError
            /\ ~ResultOf(s).success =>
                 /\ ResultOf(s).error.kind = "Plan failed (exit code"
                 /\ ResultOf(s).error.code = Runs(s)[2].rc
                 /\ ResultOf(s).error.text = TfStderr

C12_Witness ==
    \E s \in AllNames :
        /\ args.action = "plan" /\ ActionExited(s)
        /\ Runs(s)[2].rc = 2
        /\ ResultOf(s).success

(* The numbers a summary line shows, read off the line itself: its integer  *)
(* words, in the order they are printed                                     *)
IntWords(line) ==
    LET w == SelectSeq(line, IsInt)
    IN  [ i \in DOMAIN w |-> ToInt(w[i]) ]

PlanSummaryLines(text) ==
    { i \in DOMAIN text : text[i] # << >> /\ text[i][1] = "Plan:" }

CompleteSummaryLines(text) ==
    { i \in DOMAIN text : HasComplete(text[i]) }

(* C13: a plan step that exits with code 2 gives a result whose three       *)
(* deltas are the three numbers of the summary line the tool printed        *)
(* ("Plan: 3 to add, 1 to change, 0 to destroy." gives 3, 1, 0).            *)
C13_Original_PlanDeltasAreSummaryNumbers ==
    \A s \in AllNames :
        (args.action = "plan" /\ ActionExited(s) /\ Runs(s)[2].rc = 2) =>
            \A i \in PlanSummaryLines(Runs(s)[2].stdout) :
                Deltas(ResultOf(s)) = IntWords(Runs(s)[2].stdout[i])

\* the tool's own summary line is read as no change at all
C13_Witness ==
    \E s \in AllNames :
        /\ args.action = "plan" /\ ActionExited(s) /\ Runs(s)[2].rc = 2
        /\ Runs(s)[2].stdout = TextPlan
        /\ ResultOf(s).success
        /\ Deltas(ResultOf(s)) = << 0, 0, 0 >>

(* C14: a plan step that exits with code 0 gives a successful result whose  *)
(* three deltas are all 0, whatever text the tool printed.                  *)
C14_Original_PlanExitZeroGivesZeroDeltas ==
    \A s \in AllNames :
        (args.action = "plan" /\ ActionExited(s) /\ Runs(s)[2].rc = 0) =>
            /\ ResultOf(s).success
            /\ Deltas(ResultOf(s)) = << 0, 0, 0 >>

\* exit code 0, and the deltas are those of the printed text
C14_Witness ==
    \E s \in AllNames :
        /\ args.action = "plan" /\ ActionExited(s) /\ Runs(s)[2].rc = 0
        /\ Runs(s)[2].stdout = TextPlanTerse
        /\ ResultOf(s).success
        /\ Deltas(ResultOf(s)) = << 1, 2, 3 >>

(* C15: an apply step that runs after a successful init and exits gives a   *)
(* successful result exactly when its exit code is 0, and then the deltas   *)
(* are the three numbers of the "complete" line the tool printed, when the  *)
(* line carries three numbers                                              *)
(* ("Apply complete! Resources: 2 added, 0 changed, 1 destroyed." gives     *)
(* 2, 0, 1); any other exit code gives an unsuccessful result.              *)
C15_ApplySuccessIffZeroWithDeltas ==
    \A s \in AllNames :
        (args.action = "apply" /\ ActionExited(s)) =>
            /\ Returned(s)
            /\ ResultOf(s).success <=> Runs(s)[2].rc = 0
            /\ ~ResultOf(s).success => ResultOf(s).error.kind = "Apply failed (exit code"
            /\ Runs(s)[2].rc = 0 =>
                 \A i \in CompleteSummaryLines(Runs(s)[2].stdout) :
                     Len(IntWords(Runs(s)[2].stdout[i])) = 3 =>
                         Deltas(ResultOf(s)) = IntWords(Runs(s)[2].stdout[i])

C15_Witness ==
    \E s \in AllNames :
        /\ args.action = "apply" /\ ActionExited(s) /\ Runs(s)[2].rc = 0
        /\ Runs(s)[2].stdout = TextApply
        /\ ResultOf(s).success
        /\ Deltas(ResultOf(s)) = << 2, 0, 1 >>

\* the last subprocess.run call made for s hit its timeout
TimedOut(s) == Runs(s) # << >> /\ Runs(s)[Len(Runs(s))].ended = "timeout"

(* C16: when init or plan / apply hits its timeout the runner returns an    *)
(* unsuccessful result whose error is the timeout message, never a failure  *)
(* message, and the message names the step that timed out.                  *)
C16_Original_TimeoutMessageNamesStep ==
    \A s \in AllNames :
        TimedOut(s) =>
            /\ Returned(s)
            /\ ~ResultOf(s).success
            /\ ResultOf(s).error.kind = "Terraform timed out after 30 minutes"
            /\ ResultOf(s).error.step = Runs(s)[Len(Runs(s))].cmd

\* init timed out, and the message names the plan / apply step
C16_Witness ==
    \E s \in AllNames :
        /\ Runs(s) = << ProcRun("init", "timeout", -1, << >>) >>
        /\ Returned(s)
        /\ ResultOf(s).error = TimeoutError(args.action)

\* a subprocess.run call made for s raised something other than a timeout
Raised(s) == \E i \in DOMAIN Runs(s) : Runs(s)[i].ended = "raised"

InResults(s) == \E i \in DOMAIN all_results : all_results[i] = ResultOf(s)

(* C17: an exception raised while a service's step is launched is caught    *)
(* inside the runner: the runner returns an unsuccessful result carrying    *)
(* the exception's text, main is never ended by it, and once the level is   *)
(* over every service of that level has run and has its result in the list. *)
C17_ExceptionBecomesResult ==
    /\ \A s \in AllNames :
         Raised(s) =>
             /\ Returned(s)
             /\ ~ResultOf(s).success
             /\ ResultOf(s).error.kind = "str(e)"
             /\ ResultOf(s).error.text = LaunchError
    /\ pc = "fatal" => (args.max_workers <= 0 /\ \A s \in AllNames : ~Raised(s))
    /\ (~args.dry_run /\ pc \in { "check", "report", "done" }) =>
         \A i \in (1..level_num) \cap DOMAIN execution_levels :
             (\E s \in LevelSet(i) : Raised(s)) =>
                 \A t \in LevelSet(i) : Returned(t) /\ InResults(t) /\ ResultCount(t) = 1

\* a level of several services is over: one of them raised, another succeeded
C17_Witness ==
    /\ pc = "done" /\ exit_code = 1
    /\ \E i \in DOMAIN execution_levels :
         \E s, t \in LevelSet(i) :
             /\ Raised(s) /\ Rank(s) < Rank(t)
             /\ Succeeded(t) /\ Len(Runs(t)) = 2
             /\ InResults(s) /\ InResults(t)

(* C18: in a dry run no subprocess is ever started; every candidate gets    *)
(* exactly one result, successful, with duration 0.0 and all deltas 0; and  *)
(* every level of the plan is processed.                                    *)
C18_DryRunSimulatesEveryService ==
    args.dry_run =>
        /\ started_log = << >>
        /\ \A s \in AllNames : svc[s] = "idle" /\ Runs(s) = << >>
        /\ \A i \in DOMAIN all_results :
             /\ all_results[i].success
             /\ all_results[i].error = NoError
             /\ all_results[i].duration = "0.0"
             /\ Deltas(all_results[i]) = << 0, 0, 0 >>
        /\ pc \in { "check", "report", "done" } =>
             \A i \in (1..level_num) \cap DOMAIN execution_levels :
                 \A s \in LevelSet(i) : ResultCount(s) = 1
        /\ (pc = "done" /\ changed_services # << >>) =>
             /\ level_num = Len(execution_levels) + 1
             /\ Len(all_results) = Len(changed_services)
             /\ \A s \in Candidates : ResultCount(s) = 1

\* a dry run over five candidates in three levels has ended
C18_Witness ==
    /\ args.dry_run /\ pc = "done"
    /\ Len(execution_levels) = 3
    /\ Len(all_results) = 5
    /\ \E i \in DOMAIN execution_levels : Len(execution_levels[i]) > 1

\* the services whose runner was started, and those of them that returned
\* an unsuccessful result
Attempted == { s \in AllNames : Dispatched(s) }
Unsuccessful == { s \in Attempted : Returned(s) /\ ~ResultOf(s).success }

(* C19: when main returns normally its exit status is 0 or 1; it is 0 when  *)
(* no service changed, and otherwise 0 exactly when no attempted service    *)
(* failed, timed out or raised; services never dispatched play no part.     *)
C19_ExitStatus ==
    pc = "done" =>
        /\ exit_code \in { 0, 1 }
        /\ changed_services = << >> => exit_code = 0
        /\ args.dry_run => exit_code = 0
        /\ Attempted \subseteq { s \in AllNames : Returned(s) }
        /\ exit_code = 0 <=> Unsuccessful = {}
        /\ exit_code = 0 <=> \A i \in DOMAIN all_results : all_results[i].success

\* a run ended with status 1: one service succeeded, one timed out, and a
\* candidate of a later level was never dispatched
C19_Witness ==
    /\ pc = "done" /\ exit_code = 1
    /\ \E s, t, u \in Candidates :
         /\ Succeeded(s)
         /\ Returned(t) /\ TimedOut(t)
         /\ ~Dispatched(u)

\* the duplicate-free lists that name the same candidates as the list given
Reorderings == { q \in CandidateLists : Elems(q) = Candidates }

(* C20: when at least one candidate has no in-set prerequisite, the plan    *)
(* topological_sort returns is the same for every order in which the same   *)
(* candidates are listed.                                                   *)
C20_PlanIndependentOfListingOrder ==
    (Planned /\ ~NoZeroInDegree) =>
        \A q \in Reorderings :
            TopologicalSort(q, dep_table).levels = execution_levels

\* three candidates listed out of alphabetical order, two of them in one level
C20_Witness ==
    /\ Planned /\ ~NoZeroInDegree
    /\ Len(changed_services) = 3
    /\ ~IsAlphabetical(changed_services)
    /\ \E i \in DOMAIN execution_levels : Len(execution_levels[i]) = 2
    /\ Cardinality(Reorderings) = 6

----------------------------------------------------------------------------
\* the level that holds s, when exactly one does
LevelOf(s) == CHOOSE i \in LevelsOf(s) : TRUE

MaxOf(S) == CHOOSE x \in S : \A y \in S : y <= x

(* C30: when the in-set prerequisites of the candidates form no cycle,      *)
(* every candidate sits in exactly one level: the first level when it has   *)
(* no in-set prerequisite, otherwise the level right after the latest level *)
(* of its in-set prerequisites. Prerequisites that are not candidates, and  *)
(* candidates without a key in the table, put no constraint.                *)
C30_EarliestLevel ==
    (Planned /\ Acyclic) =>
        \A s \in Candidates :
            /\ Cardinality(LevelsOf(s)) = 1
            /\ LevelOf(s) = IF InSetPrereqs(s) = {} THEN 1
                            ELSE 1 + MaxOf({ LevelOf(d) : d \in InSetPrereqs(s) })

\* two candidates in two levels: the first has no key in the table, the
\* second waits for it and also lists a name that is not a candidate
C30_Witness ==
    /\ Planned /\ Acyclic
    /\ Len(execution_levels) = 2
    /\ Len(changed_services) = 2
    /\ \E s \in Candidates : s \notin DOMAIN dep_table /\ LevelOf(s) = 1
    /\ \E s \in Candidates :
         /\ LevelOf(s) = 2
         /\ Elems(DepsOf(dep_table, s)) \ Candidates # {}

----------------------------------------------------------------------------
\* the lines of the text that the step's parser looks at
SummaryLines(action, text) ==
    IF action = "plan" THEN PlanSummaryLines(text) ELSE CompleteSummaryLines(text)

\* the text has no summary line for the step, or none that shows a number
NoReadableSummary(action, text) ==
    \A i \in SummaryLines(action, text) : IntWords(text[i]) = << >>

----------------------------------------------------------------------------
\* how many times the runner of s was started
StartCount(s) == Cardinality({ i \in DOMAIN started_log : started_log[i] = s })

----------------------------------------------------------------------------
\* level i of the plan is run by the sequential branch
SequentialLevel(i) == ~args.dry_run /\ ~(args.parallel /\ Len(execution_levels[i]) > 1)

\* the services of level i, in the order they occur in seq
OfLevel(seq, i) ==
    LET inLevel(x) == x \in LevelSet(i)
    IN  SelectSeq(seq, inLevel)

ServicesOf(res) == [ i \in DOMAIN res |-> res[i].service ]

IsPrefix(p, q) == Len(p) <= Len(q) /\ \A i \in DOMAIN p : p[i] = q[i]

(* C26: in a level run by the sequential branch the services are started in *)
(* the level's order, which is alphabetical, each one only after the result *)
(* of the one before it is in the result list, and the results are in the   *)
(* list in that same order; without the parallel flag at most one runner is *)
(* active at any time.                                                      *)
C26_SequentialInAlphabeticalOrder ==
    /\ (~args.dry_run /\ ~args.parallel) => Cardinality(Running) <= 1
    /\ \A i \in DOMAIN execution_levels :
         SequentialLevel(i) =>
             LET started == OfLevel(started_log, i)
                 recorded == OfLevel(ServicesOf(all_results), i)
             IN  /\ IsAlphabetical(execution_levels[i])
                 /\ IsPrefix(started, execution_levels[i])
                 /\ IsPrefix(recorded, started)
                 /\ Len(started) <= Len(recorded) + 1
                 /\ Cardinality(Running \cap LevelSet(i)) <= 1

\* a sequential level of three services is over, the second one failed
C26_Witness ==
    /\ ~args.dry_run /\ ~args.parallel /\ pc = "check"
    /\ Len(level_services) = 3
    /\ OfLevel(ServicesOf(all_results), level_num) = level_services
    /\ ~ResultOf(level_services[2]).success
    /\ ResultOf(level_services[3]).success

----------------------------------------------------------------------------
Late == AllNames \ finished

----------------------------------------------------------------------------
(* Change detection *)

WasCalled(what, ok) == \E i \in DOMAIN detect_log : detect_log[i] = Call(what, ok)

\* the second segments a changed file can name, and the directories
Names == DirNames \cup { p[2] : p \in { q \in Paths : Len(q) >= 2 } }

\* C24: once direct detection has run, a name X is among the services found
\* exactly when some changed file has the working directory's base name as
\* its first segment and X as its second, and <working-dir>/X is a directory
\* holding at least one *.tf file; no other name is found.
C24_DirectDetection ==
    pc = "modules" =>
        /\ detected_services \subseteq Names
        /\ \A x \in Names :
             x \in detected_services <=>
                /\ \E i \in DOMAIN changed_files :
                     /\ Len(changed_files[i]) >= 2
                     /\ changed_files[i][1] = "terraform"
                     /\ changed_files[i][2] = x
                /\ x \in DirNames
                /\ env.fs[x].kind = "dir"
                /\ Len(env.fs[x].tf) >= 1

\* direct detection has found network from its changed file, and has left
\* out compute, which holds a *.tf file and whose changed file lies under
\* another first segment
C24_Witness ==
    /\ pc = "modules"
    /\ changed_files = << PathNetwork, PathElsewhere >>
    /\ detected_services = { "network" }
    /\ env.fs["compute"].kind = "dir" /\ env.fs["compute"].tf # << >>

GitCalls == { "git_diff", "git_diff_modules" }

GitQueried == \E i \in DOMAIN detect_log : detect_log[i].what \in GitCalls

\* what the paths alone give: the direct services and the services that use
\* a module the paths name
FromPaths(fs, files) ==
    DirectServices(fs, files)
        \cup (IF ModulesOf(files) = {} THEN {} ELSE ServicesUsingModules(fs, ModulesOf(files)))

\* C22: when the changed-files list was read and held a path, no diff is
\* ever asked of the repository, and the services returned are those the
\* paths of the list give; so a diff is asked only when there is no list or
\* it holds no path.
C22_ListTakesPriority ==
    WasCalled("list", TRUE) =>
        /\ ~GitQueried
        /\ pc = "start" => changed_services = SetToSortedSeq(FromPaths(env.fs, changed_files))

\* detection has returned from a list naming a module; a base ref was given
\* as well
C22_Witness ==
    /\ pc = "start"
    /\ WasCalled("list", TRUE)
    /\ env.base_ref
    /\ changed_files = << PathModule >>
    /\ changed_services = << "compute", "network" >>

\* C23: when detection has returned, for every changed file under modules/
\* naming a module M, every directory of the working directory, not hidden,
\* with a readable *.tf file that refers to M is among the services
\* returned.
C23_ModuleFanOut ==
    pc = "start" =>
        \A i \in DOMAIN changed_files :
            Len(changed_files[i]) >= 2 /\ changed_files[i][1] = "modules" =>
                \A d \in DirNames :
                    /\ ~IsHidden(d)
                    /\ env.fs[d].kind = "dir"
                    /\ \E k \in DOMAIN env.fs[d].tf :
                         /\ env.fs[d].tf[k].readable
                         /\ changed_files[i][2] \in env.fs[d].tf[k].refs
                    => \E j \in DOMAIN changed_services : changed_services[j] = d

\* only a file of module net-common changed, no call failed, and both
\* directories that refer to it were returned, network because of its second
\* file
C23_Witness ==
    /\ pc = "start"
    /\ changed_files = << PathModule >>
    /\ detected_services = { "compute", "network" }
    /\ changed_services = << "compute", "network" >>
    /\ Len(env.fs["network"].tf) = 2
    /\ WasCalled("list", TRUE)

\* a failure of a detection path: the list could not be read, no base ref,
\* the diff raised (in detect_changed_services or in detect_module_changes),
\* or the working directory could not be listed
DetectionFailed ==
    \E i \in DOMAIN detect_log :
        /\ ~detect_log[i].ok
        /\ detect_log[i].what \in { "open", "base_ref", "git_diff", "git_diff_modules", "iterdir" }

\* C21: no exception leaves detect_changed_services, and when a detection
\* path failed the services returned are all the directories of the working
\* directory that hold a *.tf file.
C21_NeverHardFailure ==
    /\ pc # "fatal"
    /\ pc = "start" /\ DetectionFailed => changed_services = AllTerraformServices(env.fs)

\* the diff of module detection raised, and detection returned nothing
\* although a directory holds a *.tf file
C21_Witness ==
    /\ pc = "start"
    /\ WasCalled("git_diff_modules", FALSE)
    /\ changed_services = << >>
    /\ AllTerraformServices(env.fs) # << >>

ConfigurationError ==
    \/ env.wd = "missing"
    \/ ~env.oci_config
    \/ ~env.env_vars

\* C28: with the working directory missing, or the OCI config file or a
\* required environment variable missing, the run never gets to change
\* detection: it ends in main with a non-zero status.
C28_ConfigurationErrorFatal ==
    ConfigurationError =>
        \/ pc = "main"
        \/ pc = "done" /\ exit_code # 0 /\ detect_log = << >> /\ started_log = << >>

\* the run is not a dry run, the config file is there, a required
\* environment variable is not, and change detection has returned
C28_Witness ==
    /\ ~args.dry_run
    /\ env.oci_config /\ ~env.env_vars
    /\ pc = "start"
    /\ changed_services # << >>

----------------------------------------------------------------------------
(* The plan as a partition, checked under SpecSort *)

\* how many times s is listed in the level
Occurrences(level, s) == Cardinality({ k \in DOMAIN level : level[k] = s })

\* C31: whatever the table, cyclic or not, the plan is a partition of the
\* candidates: every candidate is listed once, in one level, no level lists
\* a name that is not a candidate, and no level is empty.
C31_PlanIsPartition ==
    Planned =>
        /\ \A s \in Candidates :
             /\ Cardinality(LevelsOf(s)) = 1
             /\ \A i \in LevelsOf(s) : Occurrences(execution_levels[i], s) = 1
        /\ \A i \in DOMAIN execution_levels :
             /\ execution_levels[i] # << >>
             /\ Elems(execution_levels[i]) \subseteq Candidates

\* a plan of the second degraded path in which three candidates are spread
\* over two levels: one was leveled, the two others, one of which lists the
\* other twice, form the final level
C31_Witness ==
    /\ Planned
    /\ warning = "circular"
    /\ Len(changed_services) = 3
    /\ Len(execution_levels) = 2
    /\ Len(execution_levels[1]) = 1 /\ Len(execution_levels[2]) = 2
    /\ \E s \in Elems(execution_levels[2]) :
         \E t \in Elems(execution_levels[2]) \ { s } :
             s \in DOMAIN dep_table /\ dep_table[s] = << t, t >>

----------------------------------------------------------------------------
(* The sequential level and the fail-fast check *)

MultiSequential == ~args.dry_run /\ ~args.parallel /\ Len(level_services) >= 2

\* every service of the current level has returned and has its result in
\* the result list
LevelRanToItsEnd ==
    \A s \in Elems(level_services) : svc[s] = "done" /\ ResultCount(s) = 1

\* C32: in a level of several services run sequentially, recording a result
\* that is not a success leaves main in the loop over the level, at the next
\* service, which has not been started yet; main leaves the loop only for
\* the fail-fast check, and gets to the check and past it only when every
\* service of the level has returned and has its result recorded.
C32_FailureDoesNotStopSiblings ==
    [][ MultiSequential =>
          /\ ( /\ pc = "seq" /\ idx < Len(level_services)
               /\ Len(all_results') = Len(all_results) + 1
               /\ ~all_results'[Len(all_results')].success )
             => /\ pc' = "seq"
                /\ idx' = idx + 1
                /\ svc'[level_services[idx']] = "idle"
          /\ (pc = "seq" /\ pc' # "seq") => (pc' = "check" /\ LevelRanToItsEnd)
          /\ (pc = "check" /\ pc' # "check") => LevelRanToItsEnd
      ]_vars

\* the first of two services run sequentially failed at init, the second
\* one was run and succeeded, and main is at the fail-fast check
C32_Witness ==
    /\ MultiSequential /\ pc = "check"
    /\ Len(level_services) = 2
    /\ svc_result[level_services[1]].error.kind = "Init failed: "
    /\ svc_result[level_services[2]].success
    /\ ServicesOf(LastN(all_results, 2)) = level_services

----------------------------------------------------------------------------
(* The terminal states of the runner, checked under SpecRunner *)

\* the terminal state a result shows, read off its success flag and error
ShownStates(res) ==
    { st \in { "Success", "InitFailed", "Failed", "TimedOut", "Error" } :
        \/ st = "Success" /\ res.success
        \/ st = "InitFailed" /\ res.error.kind = "Init failed: "
        \/ st = "Failed" /\ res.error.kind \in { "Plan failed (exit code", "Apply failed (exit code" }
        \/ st = "TimedOut" /\ res.error.kind = "Terraform timed out after 30 minutes"
        \/ st = "Error" /\ res.error.kind = "str(e)" }

\* the terminal state the subprocess calls made for s lead to
ReachedState(s) ==
    LET runs == Runs(s)
        last == runs[Len(runs)]
    IN  IF last.ended = "timeout" THEN "TimedOut"
        ELSE IF last.ended = "raised" THEN "Error"
        ELSE IF last.cmd = "init" THEN "InitFailed"
        ELSE IF last.cmd = "plan" /\ last.rc \in { 0, 2 } THEN "Success"
        ELSE IF last.cmd = "apply" /\ last.rc = 0 THEN "Success"
        ELSE "Failed"

\* C33: a result the runner returned shows exactly one terminal state, the
\* one its subprocess calls lead to; its success flag is true exactly when
\* its error is None; and it is a success only when init exited with 0 and
\* the action then exited with 0, or with 2 for a plan.
C33_OneTerminalState ==
    \A s \in AllNames :
        Returned(s) =>
            /\ Runs(s) # << >>
            /\ ShownStates(ResultOf(s)) = { ReachedState(s) }
            /\ ResultOf(s).success <=> ResultOf(s).error = NoError
            /\ ResultOf(s).success =>
                 /\ Len(Runs(s)) = 2
                 /\ Runs(s)[1].cmd = "init" /\ Exited(Runs(s)[1]) /\ Runs(s)[1].rc = 0
                 /\ Runs(s)[2].cmd = args.action /\ Exited(Runs(s)[2])
                 /\ Runs(s)[2].rc = 0 \/ (args.action = "plan" /\ Runs(s)[2].rc = 2)

\* an apply that exited with 2 after a successful init: the result is in
\* state Failed, with an error and no success
C33_Witness ==
    \E s \in AllNames :
        /\ Returned(s) /\ args.action = "apply"
        /\ Len(Runs(s)) = 2 /\ Runs(s)[2].rc = 2
        /\ ShownStates(ResultOf(s)) = { "Failed" }
        /\ ~ResultOf(s).success
        /\ ResultOf(s).error = ActionFailedError("apply", 2, TfStderr)

\* C34: every result the runner returned carries the elapsed time of the
\* attempt in its duration field, whatever the terminal state.
C34_Original_DurationIsElapsedTime ==
    \A s \in AllNames :
        Returned(s) => ResultOf(s).duration = "elapsed"

\* init exited with a non-zero code and the result returned has the
\* duration 0.0 it was created with
C34_Witness ==
    \E s \in AllNames :
        /\ Returned(s)
        /\ Runs(s) = << ProcRun("init", "exit", 1, InitStdout) >>
        /\ ShownStates(ResultOf(s)) = { "InitFailed" }
        /\ ResultOf(s).duration = "0.0"

----------------------------------------------------------------------------
(* One execution per service directory *)

\* the work items queued for s in the pool
QueuedCount(s) == Cardinality({ i \in DOMAIN work_queue : work_queue[i] = s })

\* C35: for every service, the work items queued for it and the runner
\* calls started for it are at most one in all, so no two executions of one
\* service ever overlap; a service is dispatched only as a member of the
\* level main is at, which is the one level that lists it, and while it
\* waits or runs main is still in that level.
C35_OneExecutionPerService ==
    \A s \in AllNames :
        /\ QueuedCount(s) + StartCount(s) <= 1
        /\ Dispatched(s) =>
             /\ QueuedCount(s) + StartCount(s) = 1
             /\ Cardinality(LevelsOf(s)) = 1
             /\ \A i \in LevelsOf(s) : i <= level_num
        /\ (s \in Running \/ QueuedCount(s) = 1) =>
             /\ LevelsOf(s) = { level_num }
             /\ pc \in { "seq", "submit", "collect" }

\* two workers and a level of three services: two of them run at the same
\* time and the third has already returned, each started once
C35_Witness ==
    /\ args.parallel /\ args.max_workers = 2
    /\ Len(level_services) = 3
    /\ Cardinality(Running) = 2
    /\ \E s \in Elems(level_services) : svc[s] = "done"
    /\ \A s \in Elems(level_services) : StartCount(s) = 1 /\ QueuedCount(s) = 0

----------------------------------------------------------------------------
(* The shipped table, checked under SpecShipped *)

----------------------------------------------------------------------------
(* Termination, checked under SpecLive *)

AllTerminal == \A s \in AllNames : Dispatched(s) => (svc[s] = "done" /\ ResultCount(s) = 1)

\* C37: topological_sort returns a plan whatever the table, and in a run
\* whose pool size is at least 1 main eventually ends; when there are
\* candidates it first reaches the reporting step, with every dispatched
\* service returned and its result recorded.
C37_EveryRunTerminates ==
    /\ changed_services # << >> => <>Planned
    /\ args.max_workers >= 1 =>
         /\ <>(pc = "done")
         /\ changed_services # << >> => <>(pc = "report" /\ AllTerminal)

\* main is at the reporting step after a parallel level of two services run
\* by a pool of one worker, which was the final level of a plan computed
\* with the circular-dependency warning
C37_Witness ==
    /\ pc = "report"
    /\ args.parallel /\ args.max_workers = 1 /\ ~args.dry_run
    /\ warning = "circular"
    /\ Len(execution_levels) = 2 /\ Len(execution_levels[2]) = 2
    /\ \A s \in LevelSet(2) : svc[s] = "done" /\ svc_result[s].success
    /\ Len(all_results) = 3

----------------------------------------------------------------------------
(* The first orchestrator, checked under SpecV1 *)

\* C38: the first orchestrator takes the detected services in their order,
\* which is alphabetical, one after the other and each once, whatever the
\* results before; when it ends every detected service has its result in the
\* list, and its exit status is 1 when some result is not a success and 0
\* otherwise.
C38_V1AttemptsAllInOrder ==
    /\ IsAlphabetical(changed_services)
    /\ IsPrefix(ServicesOf(all_results), changed_services)
    /\ ~args.dry_run =>
         /\ IsPrefix(started_log, changed_services)
         /\ IsPrefix(ServicesOf(all_results), started_log)
         /\ Len(started_log) <= Len(all_results) + 1
         /\ \A i \in DOMAIN all_results :
              all_results[i] = svc_result[all_results[i].service]
    /\ pc = "done" =>
         /\ ServicesOf(all_results) = changed_services
         /\ exit_code \in { 0, 1 }
         /\ exit_code # 0 <=> \E i \in DOMAIN all_results : ~all_results[i].success

\* a run over three services has ended with status 1: the first service
\* failed at init, the second timed out, and the third was still run and
\* succeeded
C38_Witness ==
    /\ pc = "done" /\ exit_code = 1
    /\ Len(changed_services) = 3
    /\ started_log = changed_services
    /\ all_results[1].error.kind = "Terraform init failed:"
    /\ all_results[2].error = TimeoutError(args.action)
    /\ all_results[3].success

====
